---- MODULE Spec2Model ----
(***************************************************************************)
(* Model of rootutils (src/rootutils/rootutils.py): the Value class        *)
(* (a mean with an error, with error-propagating arithmetic), the         *)
(* histogram helpers histogram_normalize, histogram_normalize_to,          *)
(* histogram_add_overflow_bin, histogram_scale, get_cumulative_histogram,  *)
(* merge_histograms and make_poisson_cl_errors, and the statistical        *)
(* functions get_significance, get_significance_unc, get_sb and            *)
(* poisson_significance.                                                   *)
(*                                                                         *)
(* Numbers.  Python floats are modelled as exact real numbers, so float    *)
(* rounding, overflow, inf and nan are outside the model (but for the      *)
(* significance the host computes, see get_significance).  Every mean, bin *)
(* content and scale factor the code computes is a rational; every error   *)
(* is a signed square root of a rational (math.sqrt of a sum of squares,   *)
(* times or over a rational).  A rational is a record [n, d] in lowest     *)
(* terms with d > 0; a signed root is a record [sg, sq] standing for       *)
(* sg * sqrt(sq), with sg in {-1, 0, 1} and sg = 0 exactly when sq = 0.    *)
(***************************************************************************)
EXTENDS Integers, Sequences, FiniteSets, TLC

(***************************************************************************)
(* Rationals                                                               *)
(***************************************************************************)
Abs(i) == IF i < 0 THEN 0 - i ELSE i

Sign(i) == IF i < 0 THEN 0 - 1 ELSE IF i = 0 THEN 0 ELSE 1

RECURSIVE GCD(_, _)
GCD(x, y) == IF y = 0 THEN x ELSE GCD(y, x % y)

\* the rational n/d (d # 0) in lowest terms with a positive denominator
Rat(n, d) ==
    LET g == GCD(Abs(n), Abs(d))
    IN  [n |-> (Sign(d) * n) \div g, d |-> Abs(d) \div g]

RInt(i) == [n |-> i, d |-> 1]

RZero == RInt(0)

RAdd(x, y) == Rat(x.n * y.d + y.n * x.d, x.d * y.d)

RSub(x, y) == Rat(x.n * y.d - y.n * x.d, x.d * y.d)

RMul(x, y) == Rat(x.n * y.n, x.d * y.d)

\* x / y for y # 0 (the callers handle ZeroDivisionError before using it)
RDiv(x, y) == Rat(x.n * y.d, x.d * y.n)

RLt(x, y) == x.n * y.d < y.n * x.d

RLe(x, y) == x.n * y.d <= y.n * x.d

RSign(x) == Sign(x.n)

RAbs(x) == [n |-> Abs(x.n), d |-> x.d]

(***************************************************************************)
(* Signed square roots of rationals                                        *)
(***************************************************************************)
SZero == [sg |-> 0, sq |-> RZero]

\* math.sqrt(q) for a rational q >= 0
Sqrt(q) == [sg |-> RSign(q), sq |-> q]

\* x**2 (also x*x)
SSq(x) == x.sq

\* x / r for a root x and a rational r # 0
SDivR(x, r) == [sg |-> x.sg * RSign(r), sq |-> RDiv(x.sq, RMul(r, r))]

\* r * x (also x * r) for a rational r and a root x
RMulS(r, x) ==
    IF RSign(r) = 0 \/ x.sg = 0 THEN SZero
    ELSE [sg |-> RSign(r) * x.sg, sq |-> RMul(RMul(r, r), x.sq)]

\* the root that equals the rational r
SOfR(r) == [sg |-> RSign(r), sq |-> RMul(r, r)]

\* floor of the square root of a natural number, by bisection on lo..hi
RECURSIVE ISqrtIn(_, _, _)
ISqrtIn(n, lo, hi) ==
    IF lo >= hi THEN lo
    ELSE LET mid == (lo + hi + 1) \div 2
         IN  IF mid * mid <= n THEN ISqrtIn(n, mid, hi) ELSE ISqrtIn(n, lo, mid - 1)

\* (46340 is the largest integer whose square fits TLC's 32-bit integers)
ISqrt(n) == ISqrtIn(n, 0, IF n < 46340 THEN n ELSE 46340)

IsSquare(n) == ISqrt(n) * ISqrt(n) = n

\* a root that is a rational number: numerator and denominator are squares
SIsRational(x) == IsSquare(x.sq.n) /\ IsSquare(x.sq.d)

\* the rational a rational root equals
ROfS(x) == Rat(x.sg * ISqrt(x.sq.n), ISqrt(x.sq.d))

RECURSIVE Pow10(_)
Pow10(k) == IF k = 0 THEN 1 ELSE 10 * Pow10(k - 1)

\* the integer nearest to the rational r >= 0, a tie going to the even one
RoundHalfEven(r) ==
    LET fl == r.n \div r.d
        twice == 2 * (r.n - fl * r.d)
    IN  IF twice < r.d THEN fl
        ELSE IF twice > r.d THEN fl + 1
        ELSE IF fl % 2 = 0 THEN fl ELSE fl + 1

\* '{:.<dec>f}'.format(x): the digits of x rounded to dec decimals, as the
\* signed integer round(x * 10^dec) (so "-5.0000" is -50000 with dec = 4)
FormatFixed(x, dec) ==
    IF SIsRational(x)
    THEN x.sg * RoundHalfEven(RMul(RAbs(ROfS(x)), RInt(Pow10(dec))))
    ELSE LET q4 == RMul(x.sq, RInt(4 * Pow10(dec) * Pow10(dec)))
             t  == ISqrt(q4.n \div q4.d)
         IN  x.sg * ((t + 1) \div 2)

(***************************************************************************)
(* class Value (src/rootutils/rootutils.py, lines 36-104)                  *)
(*                                                                         *)
(* The right operand of an operator is a Value or a plain number; a plain  *)
(* number has no attribute mean, so other.mean raises AttributeError.      *)
(* A call ends in a return or in an exception that leaves the method.      *)
(***************************************************************************)
Value(mean, error) == [tag |-> "Value", mean |-> mean, error |-> error]

Number(val) == [tag |-> "number", val |-> val]

HasMean(other) == other.tag = "Value"

Return(val) == [kind |-> "return", val |-> val]

Raise(exc) == [kind |-> "raise", exc |-> exc]

\* the threshold 0.01 of __repr__
ReprThreshold == Rat(1, 100)

\* __repr__: the number of decimals and the digits of mean and error
Value_repr(self) ==
    IF RLt(self.mean, ReprThreshold)
    THEN Return([decimals |-> 4,
                 mean  |-> FormatFixed(SOfR(self.mean), 4),
                 error |-> FormatFixed(self.error, 4)])
    ELSE Return([decimals |-> 2,
                 mean  |-> FormatFixed(SOfR(self.mean), 2),
                 error |-> FormatFixed(self.error, 2)])

\* __gt__: try self.mean > other.mean, except: self.mean > other
Value_gt(self, other) ==
    IF HasMean(other) THEN Return(RLt(other.mean, self.mean))
    ELSE Return(RLt(other.val, self.mean))

\* __lt__ with <= in place of <
Value_lt_nonstrict(self, other) ==
    IF HasMean(other) THEN Return(RLe(self.mean, other.mean))
    ELSE Return(RLe(self.mean, other.val))

\* __lt__
Value_lt(self, other) ==
    IF HasMean(other) THEN Return(RLt(self.mean, other.mean))
    ELSE Return(RLt(self.mean, other.val))

\* __ge__: the body compares with >
Value_ge(self, other) ==
    IF HasMean(other) THEN Return(RLt(other.mean, self.mean))
    ELSE Return(RLt(other.val, self.mean))

\* __le__: the body compares with <
Value_le(self, other) ==
    IF HasMean(other) THEN Return(RLt(self.mean, other.mean))
    ELSE Return(RLt(self.mean, other.val))

\* __add__ with the errors summed linearly (as in src/rootutils.py, line 21)
Value_add_linear(self, other) ==
    IF ~HasMean(other) THEN Raise("AttributeError")
    ELSE Return(Value(RAdd(self.mean, other.mean),
                      SOfR(RAdd(ROfS(self.error), ROfS(other.error)))))

\* __add__: no try, so a plain number as other raises AttributeError
Value_add(self, other) ==
    IF ~HasMean(other) THEN Raise("AttributeError")
    ELSE Return(Value(RAdd(self.mean, other.mean),
                      Sqrt(RAdd(SSq(self.error), SSq(other.error)))))

\* __sub__
Value_sub(self, other) ==
    IF ~HasMean(other) THEN Raise("AttributeError")
    ELSE Return(Value(RSub(self.mean, other.mean),
                      Sqrt(RAdd(SSq(self.error), SSq(other.error)))))

\* mean * math.sqrt((a.error/a.mean)**2 + (b.error/b.mean)**2), evaluated
\* where neither a.mean nor b.mean is 0
RelativeError(mean, a, b) ==
    RMulS(mean, Sqrt(RAdd(SSq(SDivR(a.error, a.mean)),
                          SSq(SDivR(b.error, b.mean)))))

\* __mul__ without the inner try: the ZeroDivisionError leaves the method
Value_mul_unguarded(self, other) ==
    IF HasMean(other)
    THEN LET mean == RMul(self.mean, other.mean)
         IN  IF RSign(self.mean) = 0 \/ RSign(other.mean) = 0
             THEN Raise("ZeroDivisionError")
             ELSE Return(Value(mean, RelativeError(mean, self, other)))
    ELSE Return(Value(RMul(self.mean, other.val), RMulS(other.val, self.error)))

\* __mul__: the inner try turns ZeroDivisionError into error = 0, the outer
\* one turns AttributeError (a plain number) into the scalar product
Value_mul(self, other) ==
    IF HasMean(other)
    THEN LET mean == RMul(self.mean, other.mean)
         IN  IF RSign(self.mean) = 0 \/ RSign(other.mean) = 0
             THEN Return(Value(mean, SZero))
             ELSE Return(Value(mean, RelativeError(mean, self, other)))
    ELSE Return(Value(RMul(self.mean, other.val), RMulS(other.val, self.error)))

\* __div__ without the first try: dividing by a zero mean leaves the method
Value_div_unguarded(self, other) ==
    IF ~HasMean(other) THEN Raise("AttributeError")
    ELSE IF RSign(other.mean) = 0 THEN Raise("ZeroDivisionError")
    ELSE LET mean == RDiv(self.mean, other.mean)
         IN  IF RSign(self.mean) = 0
             THEN Return(Value(mean, SZero))
             ELSE Return(Value(mean, RelativeError(mean, self, other)))

\* __div__: ZeroDivisionError gives mean = 0, then error = 0; other.mean of
\* a plain number raises AttributeError, which nothing catches
Value_div(self, other) ==
    IF ~HasMean(other) THEN Raise("AttributeError")
    ELSE LET mean == IF RSign(other.mean) = 0 THEN RZero
                     ELSE RDiv(self.mean, other.mean)
         IN  IF RSign(self.mean) = 0 \/ RSign(other.mean) = 0
             THEN Return(Value(mean, SZero))
             ELSE Return(Value(mean, RelativeError(mean, self, other)))

(***************************************************************************)
(* Histograms.  The host framework's TH1/TH2 objects are modelled by what  *)
(* the code uses of them: a histogram has nx bins on x (and ny on y when   *)
(* it is 2-D), of width 1 from xlow, and a content and an error per cell.  *)
(* Cell 0 is the underflow and cell nx+1 the overflow of an axis.  A cell  *)
(* is <<bx, by>>; a 1-D histogram has the single row by = 0.  Contents and *)
(* errors are stored as they are set (the histograms built by histogram()  *)
(* store their errors: Sumw2).                                             *)
(***************************************************************************)
Cells1D(nx) == {<<bx, 0>> : bx \in 0..(nx + 1)}

Cells2D(nx, ny) == {<<bx, by>> : bx \in 0..(nx + 1), by \in 0..(ny + 1)}

\* hist.InheritsFrom('TH2')
InheritsFromTH2(hist) == hist.dim = 2

GetNbinsX(hist) == hist.nx

GetNbinsY(hist) == hist.ny

GetBinContent(hist, bx, by) == hist.content[<<bx, by>>]

GetBinError(hist, bx, by) == hist.error[<<bx, by>>]

SetBinContent(hist, bx, by, val) ==
    [hist EXCEPT !.content = [@ EXCEPT ![<<bx, by>>] = val]]

SetBinError(hist, bx, by, err) ==
    [hist EXCEPT !.error = [@ EXCEPT ![<<bx, by>>] = err]]

\* the sum of the contents of a set of cells
RECURSIVE SumContents(_, _)
SumContents(hist, cells) ==
    IF cells = {} THEN RZero
    ELSE LET c == CHOOSE x \in cells : TRUE
         IN  RAdd(hist.content[c], SumContents(hist, cells \ {c}))

\* the cells Integral() sums: every bin of the axes, no underflow or overflow
InRangeCells(hist) ==
    IF hist.dim = 2
    THEN {<<bx, by>> : bx \in 1..hist.nx, by \in 1..hist.ny}
    ELSE {<<bx, 0>> : bx \in 1..hist.nx}

\* hist.Integral()
Integral(hist) == SumContents(hist, InRangeCells(hist))

\* hist.Integral(bin1, bin2) of a 1-D histogram: bins bin1..bin2 inclusive
\* (called with bin1 <= bin2 only)
IntegralRange(hist, bin1, bin2) ==
    SumContents(hist, {<<bx, 0>> : bx \in bin1..bin2})

\* hist.FindBin(x) of a 1-D histogram: the bin that contains x, the
\* underflow below the axis and the overflow from its upper edge on
FindBin(hist, x) ==
    LET fl == x.n \div x.d
    IN  IF fl < hist.xlow THEN 0
        ELSE IF fl >= hist.xlow + hist.nx THEN hist.nx + 1
        ELSE fl - hist.xlow + 1

\* hist.Scale(c): the content and the error of every cell, underflow and
\* overflow included, times c
Scale(hist, c) ==
    [hist EXCEPT !.content = [cell \in DOMAIN @ |-> RMul(@[cell], c)],
                 !.error   = [cell \in DOMAIN @ |-> RMulS(c, @[cell])]]

\* hist.Integral(binx1, binx2, biny1, biny2) of a 2-D histogram: the cells
\* [binx1..binx2] x [biny1..biny2]
Integral2D(hist, binx1, binx2, biny1, biny2) ==
    SumContents(hist, {<<bx, by>> : bx \in binx1..binx2, by \in biny1..biny2})

\* hist.Add(h, c): to every cell, underflow and overflow included, c times
\* the content of h is added, and c times its error in quadrature
TH1Add(hist, h, c) ==
    [hist EXCEPT !.content = [cell \in DOMAIN @ |-> RAdd(@[cell], RMul(c, h.content[cell]))],
                 !.error   = [cell \in DOMAIN @ |->
                                 Sqrt(RAdd(SSq(@[cell]), RMul(RMul(c, c), SSq(h.error[cell]))))]]

\* Clone that hands back no new object
Clone_no_copy(objs, hist) == objs

\* Histograms are objects: objs is the sequence of the histograms that
\* exist and a reference is an index into it.  hist.Clone(name) makes a new
\* object that holds what hist holds; its reference is the last one.
Clone(objs, hist) == Append(objs, objs[hist])

(***************************************************************************)
(* The histogram helpers (src/rootutils/rootutils.py, lines 214-341).      *)
(* An optional argument is None or a number.                               *)
(***************************************************************************)
None == [tag |-> "None"]

IsNone(x) == x.tag = "None"

\* the truth value Python gives an optional number: None and 0 are false
Truthy(x) == ~IsNone(x) /\ x.val # RZero

\* histogram_normalize
histogram_normalize(hist) ==
    LET area == Integral(hist)
    IN  IF RLt(RZero, area) THEN Scale(hist, RDiv(RInt(1), area)) ELSE hist

\* the scale factor with the test n1 != 0 in place of n1 > 0.0
NormalizeFactor_nonzero(hist, oth, xmin, xmax) ==
    LET ranged == Truthy(xmin) /\ Truthy(xmax)
        n1 == IF ranged
              THEN IntegralRange(hist, FindBin(hist, xmin.val), FindBin(hist, xmax.val))
              ELSE Integral(hist)
        n2 == IF ranged
              THEN IntegralRange(oth, FindBin(oth, xmin.val), FindBin(oth, xmax.val))
              ELSE Integral(oth)
    IN  IF n1 # RZero THEN RDiv(n2, n1) ELSE RInt(1)

\* the scale factor s of histogram_normalize_to
NormalizeFactor(hist, oth, xmin, xmax) ==
    LET ranged == Truthy(xmin) /\ Truthy(xmax)
        n1 == IF ranged
              THEN IntegralRange(hist, FindBin(hist, xmin.val), FindBin(hist, xmax.val))
              ELSE Integral(hist)
        n2 == IF ranged
              THEN IntegralRange(oth, FindBin(oth, xmin.val), FindBin(oth, xmax.val))
              ELSE Integral(oth)
    IN  IF RLt(RZero, n1) THEN RDiv(n2, n1) ELSE RInt(1)

\* histogram_normalize_to: the histogram after hist.Scale(s); s is returned
histogram_normalize_to(hist, oth, xmin, xmax) ==
    Scale(hist, NormalizeFactor(hist, oth, xmin, xmax))

\* one fold with the two errors summed linearly
FoldInto_linear(hist, lx, ly, ox, oy) ==
    LET new_val == RAdd(GetBinContent(hist, lx, ly), GetBinContent(hist, ox, oy))
        h1 == SetBinContent(SetBinContent(hist, lx, ly, new_val), ox, oy, RZero)
        e1 == GetBinError(h1, lx, ly)
        e2 == GetBinError(h1, ox, oy)
        new_err == SOfR(RAdd(ROfS(e1), ROfS(e2)))
    IN  SetBinError(SetBinError(h1, lx, ly, new_err), ox, oy, SZero)

\* one fold that leaves the overflow cell as it was
FoldInto_overflow_kept(hist, lx, ly, ox, oy) ==
    LET new_val == RAdd(GetBinContent(hist, lx, ly), GetBinContent(hist, ox, oy))
        h1 == SetBinContent(hist, lx, ly, new_val)
        e1 == GetBinError(h1, lx, ly)
        e2 == GetBinError(h1, ox, oy)
        new_err == Sqrt(RAdd(SSq(e1), SSq(e2)))
    IN  SetBinError(h1, lx, ly, new_err)

\* one fold of histogram_add_overflow_bin: cell <<ox, oy>> into <<lx, ly>>
FoldInto(hist, lx, ly, ox, oy) ==
    LET new_val == RAdd(GetBinContent(hist, lx, ly), GetBinContent(hist, ox, oy))
        h1 == SetBinContent(SetBinContent(hist, lx, ly, new_val), ox, oy, RZero)
        e1 == GetBinError(h1, lx, ly)
        e2 == GetBinError(h1, ox, oy)
        new_err == Sqrt(RAdd(SSq(e1), SSq(e2)))
    IN  SetBinError(SetBinError(h1, lx, ly, new_err), ox, oy, SZero)

\* for bx in range(1, last_bin_x): the overflow row into the last row
RECURSIVE FoldRow(_, _)
FoldRow(hist, bx) ==
    IF bx >= GetNbinsX(hist) THEN hist
    ELSE FoldRow(FoldInto(hist, bx, GetNbinsY(hist), bx, GetNbinsY(hist) + 1), bx + 1)

\* for by in range(1, last_bin_y): the overflow column into the last column
RECURSIVE FoldColumn(_, _)
FoldColumn(hist, by) ==
    IF by >= GetNbinsY(hist) THEN hist
    ELSE FoldColumn(FoldInto(hist, GetNbinsX(hist), by, GetNbinsX(hist) + 1, by), by + 1)

\* the corner fold without the diagonal overflow cell
FoldCorner_no_diagonal(hist) ==
    LET lx == GetNbinsX(hist)
        ly == GetNbinsY(hist)
        new_val == RAdd(RAdd(GetBinContent(hist, lx, ly), GetBinContent(hist, lx + 1, ly)),
                        GetBinContent(hist, lx, ly + 1))
        h1 == SetBinContent(SetBinContent(SetBinContent(SetBinContent(hist,
                  lx, ly, new_val), lx, ly + 1, RZero), lx + 1, ly, RZero), lx + 1, ly + 1, RZero)
        new_err == Sqrt(RAdd(RAdd(SSq(GetBinError(h1, lx, ly)), SSq(GetBinError(h1, lx + 1, ly))),
                             SSq(GetBinError(h1, lx, ly + 1))))
    IN  SetBinError(SetBinError(SetBinError(SetBinError(h1,
            lx, ly, new_err), lx, ly + 1, SZero), lx + 1, ly, SZero), lx + 1, ly + 1, SZero)

\* the last x/y bin: the three overflow cells of the corner into it
FoldCorner(hist) ==
    LET lx == GetNbinsX(hist)
        ly == GetNbinsY(hist)
        new_val == RAdd(RAdd(GetBinContent(hist, lx, ly), GetBinContent(hist, lx + 1, ly)),
                        RAdd(GetBinContent(hist, lx, ly + 1), GetBinContent(hist, lx + 1, ly + 1)))
        h1 == SetBinContent(SetBinContent(SetBinContent(SetBinContent(hist,
                  lx, ly, new_val), lx, ly + 1, RZero), lx + 1, ly, RZero), lx + 1, ly + 1, RZero)
        new_err == Sqrt(RAdd(RAdd(SSq(GetBinError(h1, lx, ly)), SSq(GetBinError(h1, lx + 1, ly))),
                             RAdd(SSq(GetBinError(h1, lx, ly + 1)), SSq(GetBinError(h1, lx + 1, ly + 1)))))
    IN  SetBinError(SetBinError(SetBinError(SetBinError(h1,
            lx, ly, new_err), lx, ly + 1, SZero), lx + 1, ly, SZero), lx + 1, ly + 1, SZero)

\* histogram_add_overflow_bin
histogram_add_overflow_bin(hist) ==
    IF InheritsFromTH2(hist)
    THEN FoldCorner(FoldColumn(FoldRow(hist, 1), 1))
    ELSE FoldInto(hist, GetNbinsX(hist), 0, GetNbinsX(hist) + 1, 0)

\* c, e_c = c.mean, c.error when c is a Value
ScaleFactor(c) == IF HasMean(c) THEN c.mean ELSE c.val

ScaleError(c, e_c) ==
    IF HasMean(c) THEN Number(c.error)
    ELSE IF IsNone(e_c) THEN None ELSE Number(SOfR(e_c.val))

\* the loop body with the error of the content after scaling, as in
\* src/rootutils.py, lines 257-259: sqrt((new_n * e_c)**2 + (c * e_b)**2)
ScaleBin_absolute(hist, b, c, e_c) ==
    LET n_b == GetBinContent(hist, b, 0)
        e_b == GetBinError(hist, b, 0)
        new_n == RMul(n_b, c)
        new_e == Sqrt(RAdd(SSq(RMulS(new_n, e_c)), SSq(RMulS(c, e_b))))
    IN  SetBinError(SetBinContent(hist, b, 0, new_n), b, 0, new_e)

\* the body of the loop of histogram_scale for bin b
ScaleBin(hist, b, c, e_c) ==
    LET n_b == GetBinContent(hist, b, 0)
        e_b == GetBinError(hist, b, 0)
        new_n == RMul(n_b, c)
        new_e == IF n_b = RZero \/ c = RZero THEN SZero
                 ELSE RMulS(new_n, Sqrt(RAdd(SSq(SDivR(e_b, n_b)), SSq(SDivR(e_c, c)))))
    IN  SetBinError(SetBinContent(hist, b, 0, new_n), b, 0, new_e)

\* for b in range(1, hist.GetNbinsX()+1)
RECURSIVE ScaleLoop(_, _, _, _)
ScaleLoop(hist, b, c, e_c) ==
    IF b > GetNbinsX(hist) THEN hist
    ELSE ScaleLoop(ScaleBin(hist, b, c, e_c), b + 1, c, e_c)

\* histogram_scale
histogram_scale(hist, c, e_c) ==
    IF IsNone(ScaleError(c, e_c)) THEN Scale(hist, ScaleFactor(c))
    ELSE ScaleLoop(hist, 1, ScaleFactor(c), ScaleError(c, e_c).val)

(***************************************************************************)
(* get_cumulative_histogram and merge_histograms (lines 344-371) return a  *)
(* new histogram.  They take the objects and references to their           *)
(* arguments, and give the objects after the call and the reference they   *)
(* return.                                                                 *)
(***************************************************************************)
\* the if/elif chain with the flags taken by the other axis
CumulativeIntegral_swapped(hist, bx, by, inverse_x, inverse_y) ==
    LET nx == GetNbinsX(hist)
        ny == GetNbinsY(hist)
    IN  IF inverse_x /\ inverse_y THEN Integral2D(hist, 1, bx + 1, 1, by + 1)
        ELSE IF inverse_y THEN Integral2D(hist, 1, bx + 1, by + 1, ny)
        ELSE IF inverse_x THEN Integral2D(hist, bx + 1, nx, 1, by + 1)
        ELSE Integral2D(hist, bx + 1, nx, by + 1, ny)

\* cum of the loop body, bx and by counting from 0
CumulativeIntegral(hist, bx, by, inverse_x, inverse_y) ==
    LET nx == GetNbinsX(hist)
        ny == GetNbinsY(hist)
    IN  IF inverse_x /\ inverse_y THEN Integral2D(hist, 1, bx + 1, 1, by + 1)
        ELSE IF inverse_x THEN Integral2D(hist, 1, bx + 1, by + 1, ny)
        ELSE IF inverse_y THEN Integral2D(hist, bx + 1, nx, 1, by + 1)
        ELSE Integral2D(hist, bx + 1, nx, by + 1, ny)

\* the loop body storing cum at the loop indices
CumulativeStep_zero_based(objs, hist, newhist, bx, by, inverse_x, inverse_y) ==
    [objs EXCEPT ![newhist] =
        SetBinContent(@, bx, by, CumulativeIntegral(objs[hist], bx, by, inverse_x, inverse_y))]

\* the loop body: newhist.SetBinContent(bx+1, by+1, cum)
CumulativeStep(objs, hist, newhist, bx, by, inverse_x, inverse_y) ==
    [objs EXCEPT ![newhist] =
        SetBinContent(@, bx + 1, by + 1,
                      CumulativeIntegral(objs[hist], bx, by, inverse_x, inverse_y))]

\* for bx in range(nx): for by in range(ny), i counting the iterations
RECURSIVE CumulativeLoop(_, _, _, _, _, _, _, _)
CumulativeLoop(objs, hist, newhist, nx, ny, inverse_x, inverse_y, i) ==
    IF i >= nx * ny THEN objs
    ELSE CumulativeLoop(CumulativeStep(objs, hist, newhist, i \div ny, i % ny,
                                       inverse_x, inverse_y),
                        hist, newhist, nx, ny, inverse_x, inverse_y, i + 1)

\* get_cumulative_histogram writing into hist itself
get_cumulative_histogram_inplace(objs, hist, inverse_x, inverse_y) ==
    LET nx == GetNbinsX(objs[hist])
        ny == GetNbinsY(objs[hist])
    IN  [objs |-> CumulativeLoop(objs, hist, hist, nx, ny, inverse_x, inverse_y, 0),
         ret |-> hist]

\* get_cumulative_histogram
get_cumulative_histogram(objs, hist, inverse_x, inverse_y) ==
    LET o1 == Clone(objs, hist)
        newhist == Len(o1)
        nx == GetNbinsX(o1[hist])
        ny == GetNbinsY(o1[hist])
    IN  [objs |-> CumulativeLoop(o1, hist, newhist, nx, ny, inverse_x, inverse_y, 0),
         ret |-> newhist]

\* for h in merge_list[1:]: new_hist.Add(h, 1)
RECURSIVE MergeLoop(_, _, _, _)
MergeLoop(objs, new_hist, merge_list, i) ==
    IF i > Len(merge_list) THEN objs
    ELSE MergeLoop([objs EXCEPT ![new_hist] = TH1Add(@, objs[merge_list[i]], RInt(1))],
                   new_hist, merge_list, i + 1)

\* merge_histograms adding into the first histogram of the list
merge_histograms_inplace(objs, merge_list) ==
    [objs |-> MergeLoop(objs, merge_list[1], merge_list, 2), ret |-> merge_list[1]]

\* merge_histograms (the name given to the new histogram is not modelled)
merge_histograms(objs, merge_list) ==
    LET o1 == Clone(objs, merge_list[1])
        new_hist == Len(o1)
    IN  [objs |-> MergeLoop(o1, new_hist, merge_list, 2), ret |-> new_hist]

(***************************************************************************)
(* The statistical functions (src/rootutils/rootutils.py, lines 765-853;   *)
(* src/rootutils/statutils.py holds the same code).  The special functions *)
(* are the host's: BinomialExpZ, inc_gamma_c and TMath.Log are called and  *)
(* what they answer is an argument of the operator that models the caller. *)
(* The answer of BinomialExpZ is a float that may be infinite or not a     *)
(* number: [kind |-> "num", val |-> a rational], or FPosInf, FNegInf, FNaN. *)
(***************************************************************************)
FNum(val) == [kind |-> "num", val |-> val]

FPosInf == [kind |-> "+inf"]

FNegInf == [kind |-> "-inf"]

FNaN == [kind |-> "nan"]

\* x < y for a float x and a rational y: false for nan
FLtR(x, y) == x = FNegInf \/ (x.kind = "num" /\ RLt(x.val, y))

\* get_significance without the test for float('Inf')
get_significance_no_inf_test(s, b, sb, minb, mins, host_z) ==
    LET z1 == IF ~IsNone(minb) /\ RLt(b, minb.val) THEN FNum(RZero) ELSE host_z
        z2 == IF ~IsNone(mins) /\ RLt(s, mins.val) THEN FNum(RZero) ELSE z1
        z3 == IF FLtR(z2, RZero) THEN FNum(RZero) ELSE z2
    IN  Return(z3)

\* get_significance; host_z is what BinomialExpZ(s, b, sb) answers
get_significance(s, b, sb, minb, mins, host_z) ==
    LET z1 == IF ~IsNone(minb) /\ RLt(b, minb.val) THEN FNum(RZero) ELSE host_z
        z2 == IF ~IsNone(mins) /\ RLt(s, mins.val) THEN FNum(RZero) ELSE z1
        z3 == IF FLtR(z2, RZero) THEN FNum(RZero) ELSE z2
        z4 == IF z3 = FPosInf THEN FNum(RZero) ELSE z3
    IN  Return(z4)

\* the threshold 0.00001 of get_significance_unc
UncThreshold == Rat(1, 100000)

\* get_significance_unc; s and b are Values or plain numbers, log_p and
\* log_m what TMath.Log answers in za2_p and in za2_m.  The try block
\* leaves b as it is when s has no mean; float() of a Value raises
\* TypeError; a float division by zero raises ZeroDivisionError.
get_significance_unc(s, b, sb, minb, mins, log_p, log_m) ==
    LET s1 == IF HasMean(s) THEN Number(s.mean) ELSE s
        b1 == IF HasMean(s) /\ HasMean(b) THEN Number(b.mean) ELSE b
    IN  IF HasMean(b1) THEN Raise("TypeError")
        ELSE IF RLt(s1.val, UncThreshold) \/ RLt(b1.val, UncThreshold) THEN Return(RZero)
        ELSE IF ~IsNone(mins) /\ RLt(s1.val, mins.val) THEN Return(RZero)
        ELSE IF ~IsNone(minb) /\ RLt(b1.val, minb.val) THEN Return(RZero)
        ELSE LET sb1 == RMul(sb, b1.val)
                 za2_p == RMul(RAdd(s1.val, b1.val), log_p)
             IN  IF sb1 = RZero THEN Raise("ZeroDivisionError")
                 ELSE LET za2_m == RMul(RDiv(RMul(b1.val, b1.val), RMul(sb1, sb1)), log_m)
                          za2 == RMul(RInt(2), RSub(za2_p, za2_m))
                          za == Sqrt(za2)
                      IN  IF RLe(za2, RZero) THEN Return(RZero)
                          ELSE IF za.sg > 0 THEN Return(Rat(FormatFixed(za, 2), 100))
                          ELSE Return(RZero)

\* get_sb: s / sqrt(b) as a signed root
get_sb(s, b) ==
    IF RLt(RZero, b) THEN Return([sg |-> RSign(s), sq |-> RDiv(RMul(s, s), b)])
    ELSE Return(SZero)

\* pvalue; gamma is what inc_gamma_c answers, for (obs, exp) when
\* obs > exp and for (obs + 1, exp) otherwise
pvalue(obs, exp, gamma) ==
    IF RLt(exp, obs) THEN RSub(RInt(1), gamma) ELSE gamma

\* zvalue: sqrt(2) * ErfInverse(1 - 0.2 * pvalue), kept as the argument of
\* ErfInverse with the sign of the result, which is the sign of that
\* argument; Negative is the unary minus
zvalue(p) ==
    LET arg == RSub(RInt(1), RMul(Rat(1, 5), p))
    IN  [fn |-> "sqrt2*ErfInverse", arg |-> arg, sg |-> RSign(arg)]

Negative(z) == [z EXCEPT !.sg = 0 - @]

\* the float 0.0 poisson_significance returns
ZeroSignificance == [fn |-> "0.0", arg |-> RZero, sg |-> 0]

\* poisson_significance that returns zvalue(p) on both sides
poisson_significance_unsigned(obs, exp, gamma) ==
    LET p == pvalue(obs, exp, gamma)
    IN  IF RLt(p, Rat(1, 2)) THEN Return(zvalue(p))
        ELSE Return(ZeroSignificance)

\* poisson_significance
poisson_significance(obs, exp, gamma) ==
    LET p == pvalue(obs, exp, gamma)
    IN  IF RLt(p, Rat(1, 2))
        THEN IF RLt(exp, obs) THEN Return(zvalue(p)) ELSE Return(Negative(zvalue(p)))
        ELSE Return(ZeroSignificance)

(***************************************************************************)
(* make_poisson_cl_errors (lines 856-910).  ChisquareQuantile is the       *)
(* host's: a confidence limit is kept as the arguments it is called with,  *)
(* and a y error as the limit and the content it is the difference of.     *)
(* The graph is the sequence of its points.                                *)
(***************************************************************************)
\* hist.GetXaxis().GetBinCenter(b) and GetBinWidth(b): bins of width 1
GetBinCenter(hist, b) == RSub(RInt(hist.xlow + b), Rat(1, 2))

GetBinWidth(hist, b) == RInt(1)

\* calc_poisson_cl_lower: ChisquareQuantile(a, 2 n_obs) / 2, or 0
calc_poisson_cl_lower(q, n_obs) ==
    IF RLe(RZero, n_obs)
    THEN [fn |-> "ChisquareQuantile/2", a |-> RDiv(RSub(RInt(1), q), RInt(2)),
          ndf |-> RMul(RInt(2), n_obs)]
    ELSE [fn |-> "0.", a |-> RZero, ndf |-> RZero]

\* calc_poisson_cl_upper: ChisquareQuantile(a, 2 (n_obs + 1)) / 2, or 0
calc_poisson_cl_upper(q, n_obs) ==
    IF RLe(RZero, n_obs)
    THEN [fn |-> "ChisquareQuantile/2",
          a |-> RSub(RInt(1), RDiv(RSub(RInt(1), q), RInt(2))),
          ndf |-> RMul(RInt(2), RAdd(n_obs, RInt(1)))]
    ELSE [fn |-> "0.", a |-> RZero, ndf |-> RZero]

\* the confidence level 0.68
PoissonCL == Rat(68, 100)

\* the point appended for bin b
PoissonPoint(hist, b) ==
    LET bin_content == GetBinContent(hist, b, 0)
    IN  [x |-> GetBinCenter(hist, b),
         y |-> bin_content,
         x_errL |-> RDiv(GetBinWidth(hist, b), RInt(2)),
         x_errU |-> RDiv(GetBinWidth(hist, b), RInt(2)),
         y_errL |-> [limit |-> calc_poisson_cl_lower(PoissonCL, bin_content),
                     content |-> bin_content, up |-> FALSE],
         y_errU |-> [limit |-> calc_poisson_cl_upper(PoissonCL, bin_content),
                     content |-> bin_content, up |-> TRUE]]

\* the loop body with >= in place of >
PoissonStep_nonnegative(hist, b, points) ==
    IF RLe(RZero, GetBinContent(hist, b, 0)) THEN Append(points, PoissonPoint(hist, b))
    ELSE points

\* the loop body: if bin_content > 0.: append
PoissonStep(hist, b, points) ==
    IF RLt(RZero, GetBinContent(hist, b, 0)) THEN Append(points, PoissonPoint(hist, b))
    ELSE points

\* for b in range(1, hist.GetNbinsX()+1)
RECURSIVE PoissonLoop(_, _, _)
PoissonLoop(hist, b, points) ==
    IF b > GetNbinsX(hist) THEN points
    ELSE PoissonLoop(hist, b + 1, PoissonStep(hist, b, points))

\* make_poisson_cl_errors: a TGraphAsymmErrors of the points, or an empty
\* TGraph when there is none
make_poisson_cl_errors(hist) ==
    LET points == PoissonLoop(hist, 1, <<>>)
    IN  IF Len(points) > 0 THEN [class |-> "TGraphAsymmErrors", points |-> points]
        ELSE [class |-> "TGraph", points |-> <<>>]

(***************************************************************************)
(* MultiDraw (src/rootutils/multidraw.py; the same code is in              *)
(* src/rootutils/rootutils.py, lines 919-1069).  A tree is the sequence of *)
(* its entries and an entry gives a number to every branch; an expression  *)
(* is the name of a branch, and one that names no branch does not compile. *)
(* The current directory is the set of the names of its histograms.  A     *)
(* fill is recorded with the histogram, the value and the weight, and with *)
(* the entry and the tuple of the draw list it was made for.               *)
(***************************************************************************)
\* the branches of the tree
Branches == {"x", "y"}

\* f.GetTree() of a new TTreeFormula: whether the expression compiled
Compiles(expr) == expr \in Branches

\* ROOT.TTreeFormula(name, expr, self) and ROOT.TObject()
TTreeFormula(expr) == [class |-> "TTreeFormula", expr |-> expr]

TObject == [class |-> "TObject", expr |-> ""]

\* last_variable, last_selection = None, None
NoExpression == "None"

\* the if/else on variable != last_variable (and on the selection): a
\* formula, or a plain TObject for an expression equal to the previous one
FormulaOrObject(expr, last) ==
    IF expr # last THEN TTreeFormula(expr) ELSE TObject

\* for i, drawexp in enumerate(draw_list): the histogram is looked up and
\* the formulae are made.  The message of the first raise is formatted
\* with name, which no scope defines, so that raise ends in NameError.
RECURSIVE DrawListLoop(_, _, _, _)
DrawListLoop(directory, draw_list, i, st) ==
    IF i > Len(draw_list) THEN Return(st)
    ELSE LET hname == draw_list[i][1]
             variable == draw_list[i][2]
             selection == draw_list[i][3]
         IN  IF hname \notin directory THEN Raise("NameError")
             ELSE IF variable # st.last_variable /\ ~Compiles(variable)
             THEN Raise("RuntimeError")
             ELSE IF selection # st.last_selection /\ ~Compiles(selection)
             THEN Raise("RuntimeError")
             ELSE DrawListLoop(directory, draw_list, i + 1,
                      [histograms |-> Append(st.histograms, hname),
                       variables |-> Append(st.variables,
                                            FormulaOrObject(variable, st.last_variable)),
                       selections |-> Append(st.selections,
                                             FormulaOrObject(selection, st.last_selection)),
                       last_variable |-> variable,
                       last_selection |-> selection])

\* the body of the loop over j with a fill whatever the weight is
FillStep_any_weight(entry, i, j, formulae, weights, hists, regs) ==
    LET value == IF formulae[j].class = "TTreeFormula" THEN entry[formulae[j].expr]
                 ELSE regs.value
        weight == IF weights[j].class = "TTreeFormula" THEN entry[weights[j].expr]
                  ELSE regs.weight
    IN  [value |-> value, weight |-> weight,
         fills |-> Append(regs.fills, [hist |-> hists[j], value |-> value,
                                       weight |-> weight, entry |-> i, tuple |-> j])]

\* the body of the loop over j of multidraw_cxx: an element that is no
\* formula leaves value (weight) as the previous tuple set it
FillStep(entry, i, j, formulae, weights, hists, regs) ==
    LET value == IF formulae[j].class = "TTreeFormula" THEN entry[formulae[j].expr]
                 ELSE regs.value
        weight == IF weights[j].class = "TTreeFormula" THEN entry[weights[j].expr]
                  ELSE regs.weight
    IN  [value |-> value, weight |-> weight,
         fills |-> IF weight # 0
                   THEN Append(regs.fills, [hist |-> hists[j], value |-> value,
                                            weight |-> weight, entry |-> i, tuple |-> j])
                   ELSE regs.fills]

\* for (UInt_t j=0; j<list_len; j++)
RECURSIVE TupleLoop(_, _, _, _, _, _, _)
TupleLoop(entry, i, j, formulae, weights, hists, regs) ==
    IF j > Len(hists) THEN regs
    ELSE TupleLoop(entry, i, j + 1, formulae, weights, hists,
                   FillStep(entry, i, j, formulae, weights, hists, regs))

\* for (i = 0; i<num_events; i++)
RECURSIVE EntryLoop(_, _, _, _, _, _)
EntryLoop(tree, i, formulae, weights, hists, regs) ==
    IF i > Len(tree) THEN regs
    ELSE EntryLoop(tree, i + 1, formulae, weights, hists,
                   TupleLoop(tree[i], i, 1, formulae, weights, hists, regs))

\* the C++ MultiDraw: value = 0, weight = 0, then the loops
multidraw_cxx(tree, formulae, weights, hists) ==
    EntryLoop(tree, 1, formulae, weights, hists,
              [value |-> 0, weight |-> 0, fills |-> <<>>]).fills

\* MultiDraw: how the call ends and the fills it made
MultiDraw(tree, directory, draw_list) ==
    LET r == DrawListLoop(directory, draw_list, 1,
                 [histograms |-> <<>>, variables |-> <<>>, selections |-> <<>>,
                  last_variable |-> NoExpression, last_selection |-> NoExpression])
    IN  IF r.kind = "raise" THEN [outcome |-> r, fills |-> <<>>]
        ELSE [outcome |-> Return(None),
              fills |-> multidraw_cxx(tree, r.val.variables, r.val.selections,
                                      r.val.histograms)]

(***************************************************************************)
(* class HistManager (src/rootutils/histmanager.py; the same class is in   *)
(* src/rootutils/rootutils.py, lines 374-436).  A manager is the record of *)
(* its attributes data and weight; data maps a name to a histogram, which  *)
(* is kept as the sequence of the Fill calls made on it.  A method gives   *)
(* the manager after the call and how the call ended.                      *)
(***************************************************************************)
\* __init__ without a path
HistManager_init == [data |-> <<>>, weight |-> RInt(1)]

\* set_weight
HistManager_set_weight(m, w) ==
    [hm |-> [m EXCEPT !.weight = w], outcome |-> Return(None)]

\* add: a new, empty histogram under name, in place of one that was there
HistManager_add(m, name) ==
    [hm |-> [m EXCEPT !.data = [n \in (DOMAIN m.data) \cup {name} |->
                                   IF n = name THEN <<>> ELSE m.data[n]]],
     outcome |-> Return(None)]

\* fill with the test "if weight:" in place of "if weight is not None:"
HistManager_fill_truthy(m, name, value, weight) ==
    IF name \notin DOMAIN m.data THEN [hm |-> m, outcome |-> Raise("KeyError")]
    ELSE LET w == IF ~IsNone(weight) /\ weight.val # RZero THEN weight.val ELSE m.weight
         IN  [hm |-> [m EXCEPT !.data[name] = Append(@, [value |-> value, weight |-> w])],
              outcome |-> Return(None)]

\* fill: self.data[name] raises KeyError for a name that was not added
HistManager_fill(m, name, value, weight) ==
    IF name \notin DOMAIN m.data THEN [hm |-> m, outcome |-> Raise("KeyError")]
    ELSE LET w == IF ~IsNone(weight) THEN weight.val ELSE m.weight
         IN  [hm |-> [m EXCEPT !.data[name] = Append(@, [value |-> value, weight |-> w])],
              outcome |-> Return(None)]

(***************************************************************************)
(* class LatexTable (src/rootutils/latextable.py).  A table is the record  *)
(* of its attributes, under the names the class gives them; an attribute   *)
(* no statement has assigned yet is Unset.  _align maps a field name to    *)
(* its alignment letter.  A cell is a Python string or a Python integer,   *)
(* a field name a string.  A method gives the table after the call and how *)
(* the call ended.                                                         *)
(***************************************************************************)
Unset == [tag |-> "unset"]

PyStr(s) == [tag |-> "str", s |-> s]

PyInt(n) == [tag |-> "int", n |-> n]

PyBool(b) == [tag |-> "bool", b |-> b]

List(items) == [tag |-> "list", items |-> items]

\* str() of a cell
Str(cell) == IF cell.tag = "str" THEN cell.s ELSE ToString(cell.n)

\* the truth value of the constructor's arguments: None, an empty list,
\* False and the empty string are false
TruthyList(x) == x.tag = "list" /\ x.items # <<>>

TruthyEnv(env) == IF env.tag = "bool" THEN env.b ELSE env.s # ""

\* env in (True, False): no string equals True or False
InTrueFalse(env) == env.tag = "bool"

\* sep.join(strings)
RECURSIVE Join(_, _)
Join(sep, strings) ==
    IF strings = <<>> THEN ""
    ELSE IF Len(strings) = 1 THEN strings[1]
    ELSE strings[1] \o sep \o Join(sep, Tail(strings))

\* the cell of a rule row
Hline == PyStr("\\hline")

\* __init__
LatexTable_init(field_names, env) ==
    [_field_names |-> IF TruthyList(field_names) THEN field_names.items ELSE <<>>,
     _align |-> <<>>,
     _rows |-> <<>>,
     _add_environment |-> TruthyEnv(env) /\ InTrueFalse(env),
     _header |-> TRUE,
     field_names |-> Unset,
     _widths |-> Unset]

\* 'Field %d' % (n+1), n from 0
FieldName(n) == "Field " \o ToString(n)

\* add_row
LatexTable_add_row(t, row) ==
    IF t._field_names # <<>> /\ Len(row) # Len(t._field_names)
    THEN [table |-> t, outcome |-> Raise("Exception")]
    ELSE LET t1 == IF t._field_names = <<>>
                   THEN [t EXCEPT !._header = FALSE,
                                  !.field_names =
                                      List([n \in 1..Len(row) |-> FieldName(n)])]
                   ELSE t
         IN  [table |-> [t1 EXCEPT !._rows = Append(@, row)],
              outcome |-> Return(None)]

\* the loop of add_column from the index i (from 1) on
RECURSIVE ColumnLoop(_, _, _)
ColumnLoop(rows, column, i) ==
    IF i > Len(column) THEN rows
    ELSE LET rows1 == IF Len(rows) < i THEN Append(rows, <<>>) ELSE rows
         IN  ColumnLoop([rows1 EXCEPT ![i] = Append(@, column[i])], column, i + 1)

\* the field name and its alignment added, then the cells
AddColumn_body(t, fieldname, column, align) ==
    [t EXCEPT !._field_names = Append(@, fieldname),
              !._align = [f \in (DOMAIN t._align) \cup {fieldname} |->
                             IF f = fieldname THEN align ELSE t._align[f]],
              !._rows = ColumnLoop(@, column, 1)]

\* add_column with the field name and the alignment recorded before the
\* length of the column is tested
LatexTable_add_column_append_first(t, fieldname, column, align) ==
    IF Len(t._rows) \in {0, Len(column)}
    THEN [table |-> AddColumn_body(t, fieldname, column, align),
          outcome |-> Return(None)]
    ELSE [table |-> AddColumn_body(t, fieldname, <<>>, align),
          outcome |-> Raise("Exception")]

\* add_column
LatexTable_add_column(t, fieldname, column, align) ==
    IF Len(t._rows) \in {0, Len(column)}
    THEN [table |-> AddColumn_body(t, fieldname, column, align),
          outcome |-> Return(None)]
    ELSE [table |-> t, outcome |-> Raise("Exception")]

\* add_line
LatexTable_add_line(t) ==
    [table |-> [t EXCEPT !._rows = Append(@, <<Hline>>)],
     outcome |-> Return(None)]

\* clear
LatexTable_clear(t) ==
    [table |-> [t EXCEPT !._rows = <<>>, !._field_names = <<>>, !._widths = List(<<>>)],
     outcome |-> Return(None)]

\* the line of a row
RowLine(row) == Join(" & ", [j \in 1..Len(row) |-> Str(row[j])]) \o " \\\\"

\* the lines get_string collects for a table that has rows
Lines(t) ==
    (IF t._add_environment
     THEN <<"\\begin{tabular}" \o "{"
            \o Join("", [i \in 1..Len(t._field_names) |-> t._align[t._field_names[i]]])
            \o "}">>
     ELSE <<>>)
    \o (IF t._header
        THEN <<"\\hline", Join(" & ", t._field_names) \o " \\\\", "\\hline">>
        ELSE <<>>)
    \o [i \in 1..Len(t._rows) |-> RowLine(t._rows[i])]
    \o (IF t._add_environment THEN <<"\\end{tabular}">> ELSE <<>>)

\* get_string (and __str__): self._align[i] raises KeyError for a field name
\* that has no alignment
LatexTable_get_string(t) ==
    IF t._rows = <<>> THEN Return("")
    ELSE IF /\ t._add_environment
            /\ \E i \in 1..Len(t._field_names) : t._field_names[i] \notin DOMAIN t._align
    THEN Raise("KeyError")
    ELSE Return(Join("\n", Lines(t)))

(***************************************************************************)
(* State.  self and other are the operands of a Value operator, op the     *)
(* operator applied to them and res how the call ended.  hist is the       *)
(* histogram a helper is called on, pre the same histogram as it was       *)
(* before the call, call the helper called with its other arguments and    *)
(* ret what it returned.  objs is the sequence of histogram objects the    *)
(* helpers that return a new histogram work on, objs0 the same sequence as *)
(* it was before the call.  md is what a call of MultiDraw works on (the   *)
(* tree, the current directory, the fills made), hm a HistManager and      *)
(* table a LatexTable.                                                     *)
(***************************************************************************)
VARIABLES self, other, op, res, hist, pre, call, ret, objs, objs0, md, hm, table

valueVars == <<self, other, op, res>>

histVars == <<hist, pre, call, ret>>

objVars == <<objs, objs0>>

appVars == <<md, hm, table>>

vars == <<self, other, op, res, hist, pre, call, ret, objs, objs0, md, hm, table>>

MaxMean == 5

MaxErr == 2

NBins == 2

NBinsY == 3

MaxObjs == 2

MaxEntries == 2

MaxDraw == 2

MaxFills == 2

MaxRows == 2

MaxCells == 2

MaxFields == 2

MaxAmount == 3

\* means that are whole numbers
IntMeans == {RInt(i) : i \in (0 - MaxMean)..MaxMean}

\* means on both sides of the threshold 0.01 of __repr__ and next to it
SmallMeans == {Rat(1, 200), Rat(0 - 1, 200), Rat(1, 100)}

Errors == {SOfR(RInt(i)) : i \in 0..MaxErr}

IntValues == {Value(m, e) : m \in IntMeans, e \in Errors}

SmallValues == {Value(m, e) : m \in SmallMeans, e \in Errors}

Numbers == {Number(m) : m \in IntMeans}

NoResult == [kind |-> "none"]

Bin(content, error) == [content |-> RInt(content), error |-> SOfR(RInt(error))]

\* what a bin of the axis holds: empty, weights that cancel, filled, negative
BinSet == {Bin(0, 0), Bin(0, 1), Bin(10, 1), Bin(10, 2), Bin(0 - 5, 1)}

\* what the underflow and the overflow hold
EdgeBinSet == {Bin(0, 0), Bin(5, 1)}

\* the 1-D histogram of nx bins from -1 whose cell bx holds f[bx]
Hist1D(nx, f) ==
    [dim |-> 1, nx |-> nx, ny |-> 1, xlow |-> 0 - 1,
     content |-> [cell \in Cells1D(nx) |-> f[cell[1]].content],
     error   |-> [cell \in Cells1D(nx) |-> f[cell[1]].error]]

Fillings(nx, inner, edge) ==
    {f \in [0..(nx + 1) -> inner \cup edge] :
        /\ f[0] \in edge
        /\ f[nx + 1] \in edge
        /\ \A b \in 1..nx : f[b] \in inner}

Hists1D == {Hist1D(NBins, f) : f \in Fillings(NBins, BinSet, EdgeBinSet)}

\* the histograms normalize_to takes as other
Others1D == {Hist1D(NBins, f) : f \in Fillings(NBins, {Bin(0, 0), Bin(5, 1)}, EdgeBinSet)}

\* the 2-D histogram whose cells all differ, times the weight k
Hist2D(nx, ny, k) ==
    [dim |-> 2, nx |-> nx, ny |-> ny, xlow |-> 0 - 1,
     content |-> [cell \in Cells2D(nx, ny) |-> RInt(k * (1 + cell[1] + 10 * cell[2]))],
     error   |-> [cell \in Cells2D(nx, ny) |-> SOfR(RInt(Abs(k) * (1 + ((cell[1] + cell[2]) % 3))))]]

Hists2D == {Hist2D(NBins, NBinsY, k) : k \in {0 - 1, 0, 1, 2}}

\* the coordinates and the scale factors the calls are made with
Coordinates == {None} \cup {Number(RInt(x)) : x \in {0 - 1, 0, 1}}

ScaleFactors ==
    {Value(RInt(2), SZero), Value(RInt(2), SOfR(RInt(1))), Value(RZero, SOfR(RInt(1))),
     Value(RInt(0 - 1), SOfR(RInt(1))), Number(RInt(2)), Number(RZero), Number(RInt(0 - 1))}

ScaleErrors == {None, Number(RZero), Number(RInt(1))}

ValueIdle ==
    /\ self = Value(RZero, SZero)
    /\ other = Number(RZero)
    /\ op = "idle"
    /\ res = NoResult

HistIdle ==
    /\ hist = Hist1D(0, [b \in 0..1 |-> Bin(0, 0)])
    /\ pre = hist
    /\ call = [name |-> "idle"]
    /\ ret = None

ObjIdle ==
    /\ objs = <<>>
    /\ objs0 = <<>>

MultiDrawIdle ==
    md = [tree |-> <<>>, directory |-> {}, fills |-> <<>>, outcome |-> NoResult]

HistManagerIdle == hm = [data |-> <<>>, weight |-> RInt(1)]

LatexTableIdle == table = LatexTable_init(None, PyBool(FALSE))

AppIdle == MultiDrawIdle /\ HistManagerIdle /\ LatexTableIdle

\* A small mean is paired with a small mean or a plain number, never with a
\* whole one: the relative error of 5 / 0.005 has a square beyond TLC's
\* 32-bit integers.
InitValue ==
    /\ \/ self \in IntValues /\ other \in IntValues \cup Numbers
       \/ self \in SmallValues /\ other \in SmallValues \cup Numbers
    /\ op = "init"
    /\ res = NoResult
    /\ HistIdle
    /\ ObjIdle
    /\ AppIdle

Call(name, result) ==
    /\ op = "init"
    /\ op' = name
    /\ res' = result
    /\ UNCHANGED <<self, other>>
    /\ UNCHANGED histVars
    /\ UNCHANGED objVars
    /\ UNCHANGED appVars

Repr == Call("repr", Value_repr(self))

Gt == Call("gt", Value_gt(self, other))

Lt == Call("lt", Value_lt(self, other))

Ge == Call("ge", Value_ge(self, other))

Le == Call("le", Value_le(self, other))

Add == Call("add", Value_add(self, other))

Sub == Call("sub", Value_sub(self, other))

Mul == Call("mul", Value_mul(self, other))

Div == Call("div", Value_div(self, other))

NextValue == Repr \/ Gt \/ Lt \/ Ge \/ Le \/ Add \/ Sub \/ Mul \/ Div

SpecValue == InitValue /\ [][NextValue]_vars

InitHist ==
    /\ hist \in Hists1D \cup Hists2D
    /\ pre = hist
    /\ call = [name |-> "init"]
    /\ ret = None
    /\ ValueIdle
    /\ AppIdle
    /\ ObjIdle

Normalize ==
    /\ call.name = "init"
    /\ hist' = histogram_normalize(hist)
    /\ call' = [name |-> "normalize"]
    /\ ret' = None
    /\ UNCHANGED pre
    /\ UNCHANGED valueVars
    /\ UNCHANGED appVars
    /\ UNCHANGED objVars

\* A range is given with xmin <= xmax and to 1-D histograms only.
NormalizeTo ==
    /\ call.name = "init"
    /\ \E oth \in (IF hist.dim = 1 THEN Others1D ELSE Hists2D),
          xmin \in Coordinates, xmax \in Coordinates :
          /\ hist.dim = 2 => (IsNone(xmin) /\ IsNone(xmax))
          /\ (~IsNone(xmin) /\ ~IsNone(xmax)) => RLe(xmin.val, xmax.val)
          /\ hist' = histogram_normalize_to(hist, oth, xmin, xmax)
          /\ ret' = Number(NormalizeFactor(hist, oth, xmin, xmax))
          /\ call' = [name |-> "normalize_to", other |-> oth, xmin |-> xmin, xmax |-> xmax]
    /\ UNCHANGED pre
    /\ UNCHANGED valueVars
    /\ UNCHANGED appVars
    /\ UNCHANGED objVars

AddOverflowBin ==
    /\ call.name = "init"
    /\ hist' = histogram_add_overflow_bin(hist)
    /\ call' = [name |-> "add_overflow_bin"]
    /\ ret' = None
    /\ UNCHANGED pre
    /\ UNCHANGED valueVars
    /\ UNCHANGED appVars
    /\ UNCHANGED objVars

\* histogram_scale is called on 1-D histograms.
ScaleBy ==
    /\ call.name = "init"
    /\ hist.dim = 1
    /\ \E c \in ScaleFactors, e_c \in ScaleErrors :
          /\ hist' = histogram_scale(hist, c, e_c)
          /\ call' = [name |-> "scale", c |-> c, e_c |-> e_c]
    /\ ret' = None
    /\ UNCHANGED pre
    /\ UNCHANGED valueVars
    /\ UNCHANGED appVars
    /\ UNCHANGED objVars

\* make_poisson_cl_errors is called on 1-D histograms.
MakePoissonErrors ==
    /\ call.name = "init"
    /\ hist.dim = 1
    /\ ret' = make_poisson_cl_errors(hist)
    /\ call' = [name |-> "make_poisson_cl_errors"]
    /\ UNCHANGED <<hist, pre>>
    /\ UNCHANGED valueVars
    /\ UNCHANGED appVars
    /\ UNCHANGED objVars

NextHist == Normalize \/ NormalizeTo \/ AddOverflowBin \/ ScaleBy \/ MakePoissonErrors

SpecHist == InitHist /\ [][NextHist]_vars

\* the 2-D histogram of 3 x 1 bins that holds 1, 2, 3
ExampleRow ==
    [dim |-> 2, nx |-> 3, ny |-> 1, xlow |-> 0 - 1,
     content |-> [cell \in Cells2D(3, 1) |->
                     IF cell[2] = 1 /\ cell[1] \in 1..3 THEN RInt(cell[1]) ELSE RZero],
     error   |-> [cell \in Cells2D(3, 1) |->
                     IF cell[2] = 1 /\ cell[1] \in 1..3 THEN Sqrt(RInt(cell[1])) ELSE SZero]]

\* the reference a call returns
Ref(r) == [tag |-> "ref", ref |-> r]

\* Up to MaxObjs histograms of the same binning exist, or the example alone.
InitObjects ==
    /\ \/ \E n \in 1..MaxObjs : objs \in [1..n -> Hists2D]
       \/ objs = <<ExampleRow>>
    /\ objs0 = objs
    /\ hist = Hist1D(0, [b \in 0..1 |-> Bin(0, 0)])
    /\ pre = hist
    /\ call = [name |-> "init"]
    /\ ret = None
    /\ ValueIdle
    /\ AppIdle

\* get_cumulative_histogram is called on 2-D histograms: the Integral of
\* four bin numbers is the one of TH2.
Cumulative ==
    /\ call.name = "init"
    /\ \E h \in DOMAIN objs, inverse_x \in BOOLEAN, inverse_y \in BOOLEAN :
          LET r == get_cumulative_histogram(objs, h, inverse_x, inverse_y)
          IN  /\ objs' = r.objs
              /\ ret' = Ref(r.ret)
              /\ call' = [name |-> "cumulative", hist |-> h,
                          inverse_x |-> inverse_x, inverse_y |-> inverse_y]
    /\ UNCHANGED <<hist, pre, objs0>>
    /\ UNCHANGED valueVars
    /\ UNCHANGED appVars

\* merge_histograms is called with a non-empty list of existing histograms;
\* a histogram may be listed more than once.
Merge ==
    /\ call.name = "init"
    /\ \E n \in 1..MaxObjs : \E merge_list \in [1..n -> DOMAIN objs] :
          LET r == merge_histograms(objs, merge_list)
          IN  /\ objs' = r.objs
              /\ ret' = Ref(r.ret)
              /\ call' = [name |-> "merge", merge_list |-> merge_list]
    /\ UNCHANGED <<hist, pre, objs0>>
    /\ UNCHANGED valueVars
    /\ UNCHANGED appVars

NextObjects == Cumulative \/ Merge

SpecObjects == InitObjects /\ [][NextObjects]_vars

\* the signal and background yields: negative, zero and positive
Amounts == {RInt(i) : i \in (0 - 1)..MaxAmount}

\* the yields get_significance_unc is called with, one of them below its
\* threshold, as plain numbers and as Values
Yields ==
    {Number(a) : a \in Amounts \cup {Rat(1, 1000000)}}
        \cup {Value(a, SOfR(RInt(1))) : a \in Amounts}

\* the background uncertainty: sb of get_significance (absolute) and of
\* get_significance_unc (a fraction of b)
Uncertainties == {RZero, Rat(1, 2), RInt(1)}

\* minb and mins
Minimums == {None, Number(RInt(2))}

\* what BinomialExpZ answers
HostZ == {FNaN, FNegInf, FPosInf, FNum(RInt(0 - 1)), FNum(RZero), FNum(Rat(1, 2)), FNum(RInt(2))}

\* what TMath.Log answers
HostLogs == {RZero, Rat(1, 2), RInt(1)}

\* what inc_gamma_c answers: a probability
HostGammas == {RZero, Rat(1, 4), Rat(1, 2), Rat(3, 4), RInt(1)}

InitStat ==
    /\ hist = Hist1D(0, [b \in 0..1 |-> Bin(0, 0)])
    /\ pre = hist
    /\ call = [name |-> "init"]
    /\ ret = None
    /\ ValueIdle
    /\ AppIdle
    /\ ObjIdle

Significance ==
    /\ call.name = "init"
    /\ \E s \in Amounts, b \in Amounts, sb \in Uncertainties,
          minb \in Minimums, mins \in Minimums, host_z \in HostZ :
          /\ ret' = get_significance(s, b, sb, minb, mins, host_z)
          /\ call' = [name |-> "get_significance", s |-> s, b |-> b, sb |-> sb,
                      minb |-> minb, mins |-> mins, host_z |-> host_z]
    /\ UNCHANGED <<hist, pre>>
    /\ UNCHANGED valueVars
    /\ UNCHANGED appVars
    /\ UNCHANGED objVars

SignificanceUnc ==
    /\ call.name = "init"
    /\ \E s \in Yields, b \in Yields, sb \in Uncertainties,
          minb \in Minimums, mins \in Minimums, log_p \in HostLogs, log_m \in HostLogs :
          /\ ret' = get_significance_unc(s, b, sb, minb, mins, log_p, log_m)
          /\ call' = [name |-> "get_significance_unc", s |-> s, b |-> b, sb |-> sb,
                      minb |-> minb, mins |-> mins, log_p |-> log_p, log_m |-> log_m]
    /\ UNCHANGED <<hist, pre>>
    /\ UNCHANGED valueVars
    /\ UNCHANGED appVars
    /\ UNCHANGED objVars

Sb ==
    /\ call.name = "init"
    /\ \E s \in Amounts, b \in Amounts :
          /\ ret' = get_sb(s, b)
          /\ call' = [name |-> "get_sb", s |-> s, b |-> b]
    /\ UNCHANGED <<hist, pre>>
    /\ UNCHANGED valueVars
    /\ UNCHANGED appVars
    /\ UNCHANGED objVars

\* observed and expected counts are not negative
PoissonSignificance ==
    /\ call.name = "init"
    /\ \E obs \in 0..MaxAmount, exp \in 0..MaxAmount, gamma \in HostGammas :
          /\ ret' = poisson_significance(RInt(obs), RInt(exp), gamma)
          /\ call' = [name |-> "poisson_significance", obs |-> RInt(obs),
                      exp |-> RInt(exp), gamma |-> gamma]
    /\ UNCHANGED <<hist, pre>>
    /\ UNCHANGED valueVars
    /\ UNCHANGED appVars
    /\ UNCHANGED objVars

NextStat == Significance \/ SignificanceUnc \/ Sb \/ PoissonSignificance

SpecStat == InitStat /\ [][NextStat]_vars

\* Every call of the core: a behaviour is one call of one operation, made
\* with the arguments the initial state holds.  A helper that works on hist
\* is called when a histogram is given, a statistical function when no
\* histogram is.
InitCore == InitValue \/ InitHist \/ InitObjects \/ InitStat

HistGiven == hist.nx > 0

NothingGiven == hist.nx = 0 /\ objs = <<>>

NextCore ==
    \/ NextValue
    \/ HistGiven /\ NextHist
    \/ NextObjects
    \/ NothingGiven /\ NextStat

SpecCore == InitCore /\ [][NextCore]_vars

\* the entries of a tree: x is 0 or 1, y is 0 or 2
Entries == {[x |-> a, y |-> b] : a \in {0, 1}, b \in {0, 2}}

Trees == UNION {[1..n -> Entries] : n \in 0..MaxEntries}

\* draw tuples (hname, variable, selection): h1 and h2 are in the current
\* directory, h3 is not; z is no branch of the tree
DrawTuples ==
    {<<"h1", "x", "y">>, <<"h2", "x", "y">>, <<"h1", "y", "y">>, <<"h2", "y", "x">>,
     <<"h1", "x", "x">>, <<"h3", "x", "y">>, <<"h1", "z", "y">>, <<"h2", "x", "z">>}

DrawLists == UNION {[1..n -> DrawTuples] : n \in 1..MaxDraw}

InitMultiDraw ==
    /\ md \in {[tree |-> t, directory |-> {"h1", "h2"}, fills |-> <<>>,
                 outcome |-> NoResult] : t \in Trees}
    /\ ValueIdle
    /\ HistIdle
    /\ ObjIdle
    /\ HistManagerIdle
    /\ LatexTableIdle

MultiDrawCall ==
    /\ call.name = "idle"
    /\ md.directory # {}
    /\ \E draw_list \in DrawLists :
          LET r == MultiDraw(md.tree, md.directory, draw_list)
          IN  /\ md' = [md EXCEPT !.fills = r.fills, !.outcome = r.outcome]
              /\ call' = [name |-> "MultiDraw", draw_list |-> draw_list]
    /\ UNCHANGED <<hist, pre, ret, hm, table>>
    /\ UNCHANGED <<self, other, op, res>>
    /\ UNCHANGED objVars

NextMultiDraw == MultiDrawCall

SpecMultiDraw == InitMultiDraw /\ [][NextMultiDraw]_vars

\* the names, values and weights the manager is called with
HistNames == {"a", "b"}

FillValues == {RInt(1), RInt(2)}

DefaultWeights == {RZero, RInt(3)}

FillWeights == {None, Number(RZero), Number(RInt(2))}

\* the number of fills the histograms of the manager hold
RECURSIVE CountFills(_, _)
CountFills(data, names) ==
    IF names = {} THEN 0
    ELSE LET n == CHOOSE x \in names : TRUE
         IN  Len(data[n]) + CountFills(data, names \ {n})

InitHistManager ==
    /\ hm = HistManager_init
    /\ ValueIdle
    /\ HistIdle
    /\ ObjIdle
    /\ MultiDrawIdle
    /\ LatexTableIdle

\* what a call of a method of the manager leaves alone
HistManagerFrame ==
    /\ UNCHANGED <<hist, pre, md, table>>
    /\ UNCHANGED <<self, other, op, res>>
    /\ UNCHANGED objVars

SetWeight ==
    /\ \E w \in DefaultWeights :
          LET r == HistManager_set_weight(hm, w)
          IN  /\ hm' = r.hm
              /\ ret' = r.outcome
              /\ call' = [name |-> "set_weight", w |-> w]
    /\ HistManagerFrame

AddHist ==
    /\ \E name \in HistNames :
          LET r == HistManager_add(hm, name)
          IN  /\ hm' = r.hm
              /\ ret' = r.outcome
              /\ call' = [name |-> "add", hname |-> name]
    /\ HistManagerFrame

\* at most MaxFills fills are held at a time
Fill ==
    /\ CountFills(hm.data, DOMAIN hm.data) < MaxFills
    /\ \E name \in HistNames, value \in FillValues, weight \in FillWeights :
          LET r == HistManager_fill(hm, name, value, weight)
          IN  /\ hm' = r.hm
              /\ ret' = r.outcome
              /\ call' = [name |-> "fill", hname |-> name, value |-> value,
                          weight |-> weight]
    /\ HistManagerFrame

NextHistManager == SetWeight \/ AddHist \/ Fill

SpecHistManager == InitHistManager /\ [][NextHistManager]_vars

\* the arguments a LatexTable is built and called with
ConstructorFieldNames == {None, List(<<>>), List(<<"x">>), List(<<"x", "y">>)}

Envs == {PyBool(TRUE), PyBool(FALSE), PyStr("tabular")}

\* one list of cells of each length: strings and integers in turn
CellList(n) == [i \in 1..n |-> IF i % 2 = 1 THEN PyStr("SR1") ELSE PyInt(2)]

CellLists(maxLen) == {CellList(n) : n \in 0..maxLen}

NewFieldNames == {"x"}

Aligns == {"c", "l"}

InitLatexTable ==
    /\ \E field_names \in ConstructorFieldNames, env \in Envs :
          /\ table = LatexTable_init(field_names, env)
          /\ call = [name |-> "LatexTable", field_names |-> field_names, env |-> env]
    /\ ret = None
    /\ hist = Hist1D(0, [b \in 0..1 |-> Bin(0, 0)])
    /\ pre = hist
    /\ ValueIdle
    /\ ObjIdle
    /\ MultiDrawIdle
    /\ HistManagerIdle

\* what a call of a method of the table leaves alone
LatexTableFrame ==
    /\ UNCHANGED <<hist, pre, md, hm>>
    /\ UNCHANGED <<self, other, op, res>>
    /\ UNCHANGED objVars

\* at most MaxRows rows are held at a time
AddRow ==
    /\ Len(table._rows) < MaxRows
    /\ \E row \in CellLists(MaxCells) :
          LET r == LatexTable_add_row(table, row)
          IN  /\ table' = r.table
              /\ ret' = r.outcome
              /\ call' = [name |-> "add_row", row |-> row]
    /\ LatexTableFrame

\* at most MaxFields field names are held at a time
AddColumn ==
    /\ Len(table._field_names) < MaxFields
    /\ \E fieldname \in NewFieldNames, column \in CellLists(MaxRows), align \in Aligns :
          LET r == LatexTable_add_column(table, fieldname, column, align)
          IN  /\ table' = r.table
              /\ ret' = r.outcome
              /\ call' = [name |-> "add_column", fieldname |-> fieldname,
                          column |-> column, align |-> align]
    /\ LatexTableFrame

AddLine ==
    /\ Len(table._rows) < MaxRows
    /\ LET r == LatexTable_add_line(table)
       IN  /\ table' = r.table
           /\ ret' = r.outcome
           /\ call' = [name |-> "add_line"]
    /\ LatexTableFrame

Clear ==
    /\ LET r == LatexTable_clear(table)
       IN  /\ table' = r.table
           /\ ret' = r.outcome
           /\ call' = [name |-> "clear"]
    /\ LatexTableFrame

GetString ==
    /\ table' = table
    /\ ret' = LatexTable_get_string(table)
    /\ call' = [name |-> "get_string"]
    /\ LatexTableFrame

NextLatexTable == AddRow \/ AddColumn \/ AddLine \/ Clear \/ GetString

SpecLatexTable == InitLatexTable /\ [][NextLatexTable]_vars

(***************************************************************************)
(* Properties of class Value                                               *)
(***************************************************************************)
\* C1: add(a,b) has mean a.mean+b.mean, sub(a,b) has mean a.mean-b.mean, and
\* both have the error sqrt(a.error^2 + b.error^2): the non-negative number
\* whose square is the sum of the squares, which is not a.error+b.error
\* when both errors are positive.
C1_AddSubQuadrature ==
    (op \in {"add", "sub"} /\ HasMean(other)) =>
        /\ res.kind = "return"
        /\ res.val.mean = IF op = "add" THEN RAdd(self.mean, other.mean)
                          ELSE RSub(self.mean, other.mean)
        /\ res.val.error.sg >= 0
        /\ SSq(res.val.error) = RAdd(SSq(self.error), SSq(other.error))
        /\ (self.error.sg > 0 /\ other.error.sg > 0) =>
               res.val.error # SOfR(RAdd(ROfS(self.error), ROfS(other.error)))

C1_Witness ==
    /\ op = "add"
    /\ HasMean(other)
    /\ self.error.sg > 0
    /\ other.error.sg > 0
    /\ res.kind = "return"
    /\ ~SIsRational(res.val.error)

\* C2: mul(a,b) with a.mean = 0 or b.mean = 0 returns, with mean 0 and
\* error 0, whatever the two errors are.
C2_MulZeroMean ==
    (op = "mul" /\ HasMean(other)
        /\ (self.mean = RZero \/ other.mean = RZero)) =>
        /\ res.kind = "return"
        /\ res.val.mean = RZero
        /\ res.val.error = SZero

C2_Witness ==
    /\ op = "mul"
    /\ HasMean(other)
    /\ other.mean = RZero
    /\ self.mean # RZero
    /\ self.error.sg > 0
    /\ other.error.sg > 0
    /\ res = Return(Value(RZero, SZero))

\* C3: div(a,b) with b.mean = 0 returns mean 0 and error 0 (no exception);
\* with a.mean = 0 and b.mean # 0 the result has mean 0 and error 0 too.
C3_DivZeroMean ==
    (op = "div" /\ HasMean(other)
        /\ (other.mean = RZero \/ self.mean = RZero)) =>
        /\ res.kind = "return"
        /\ res.val.mean = RZero
        /\ res.val.error = SZero

C3_Witness ==
    /\ op = "div"
    /\ HasMean(other)
    /\ other.mean = RZero
    /\ self.mean # RZero
    /\ self.error.sg > 0
    /\ res = Return(Value(RZero, SZero))

\* the number a comparator compares self.mean with
ComparedMean == IF HasMean(other) THEN other.mean ELSE other.val

\* C4: a < b exactly when a.mean < b.mean and a > b exactly when
\* a.mean > b.mean, whatever the errors; against a plain number k, a < k
\* exactly when a.mean < k and a > k exactly when a.mean > k.
C4_StrictComparators ==
    /\ op = "lt" =>
          /\ res.kind = "return"
          /\ res.val = (self.mean.n * ComparedMean.d < ComparedMean.n * self.mean.d)
    /\ op = "gt" =>
          /\ res.kind = "return"
          /\ res.val = (self.mean.n * ComparedMean.d > ComparedMean.n * self.mean.d)

C4_Witness ==
    /\ op = "lt"
    /\ HasMean(other)
    /\ self.mean = other.mean
    /\ self.error # other.error
    /\ res = Return(FALSE)

\* C5: a <= b exactly when a.mean <= b.mean and a >= b exactly when
\* a.mean >= b.mean; both hold when the means are equal.
C5_NonStrictComparators ==
    /\ (op = "le" /\ HasMean(other)) =>
          res = Return(self.mean.n * other.mean.d <= other.mean.n * self.mean.d)
    /\ (op = "ge" /\ HasMean(other)) =>
          res = Return(self.mean.n * other.mean.d >= other.mean.n * self.mean.d)

\* C6: the rendering uses 4 decimals exactly when |mean| < 0.01 and 2
\* decimals otherwise, for negative means too.
C6_ReprDecimals ==
    op = "repr" =>
        /\ res.kind = "return"
        /\ res.val.decimals = IF RLt(RAbs(self.mean), ReprThreshold) THEN 4 ELSE 2

(***************************************************************************)
(* Properties of the histogram helpers                                     *)
(***************************************************************************)
\* the sum of the contents of bins 1..nx of a 1-D histogram, or of the
\* cells [1..nx] x [1..ny] of a 2-D one
RECURSIVE BinSum(_, _, _)
BinSum(h, bx, by) ==
    IF bx > h.nx THEN RZero
    ELSE RAdd(h.content[<<bx, by>>], BinSum(h, bx + 1, by))

RECURSIVE RowSum(_, _)
RowSum(h, by) ==
    IF by > h.ny THEN RZero ELSE RAdd(BinSum(h, 1, by), RowSum(h, by + 1))

FullIntegral(h) == IF h.dim = 1 THEN BinSum(h, 1, 0) ELSE RowSum(h, 1)

ScaledBy(h, h0, s) ==
    /\ DOMAIN h.content = DOMAIN h0.content
    /\ \A cell \in DOMAIN h0.content :
          /\ h.content[cell] = RMul(h0.content[cell], s)
          /\ h.error[cell] = RMulS(s, h0.error[cell])

\* C7: normalizeTo(h, other) on an h whose integral is not greater than 0
\* returns 1.0 and leaves every content and error of h unchanged, whatever
\* other holds; with integral(h) > 0 it returns integral(other)/integral(h)
\* and every content and error of h is multiplied by that factor.
C7_NormalizeToFactor ==
    (call.name = "normalize_to" /\ IsNone(call.xmin) /\ IsNone(call.xmax)) =>
        LET n1 == FullIntegral(pre)
            n2 == FullIntegral(call.other)
        IN  IF n1.n > 0
            THEN /\ ret = Number(Rat(n2.n * n1.d, n2.d * n1.n))
                 /\ ScaledBy(hist, pre, ret.val)
            ELSE /\ ret = Number(RInt(1))
                 /\ hist = pre

C7_Witness ==
    /\ call.name = "normalize_to"
    /\ IsNone(call.xmin)
    /\ IsNone(call.xmax)
    /\ FullIntegral(pre).n < 0
    /\ FullIntegral(call.other).n > 0
    /\ ret = Number(RInt(1))
    /\ hist = pre

\* the sum of the contents of bins b1..b2 of a 1-D histogram
RECURSIVE BinRangeSum(_, _, _)
BinRangeSum(h, b1, b2) ==
    IF b1 > b2 THEN RZero
    ELSE RAdd(h.content[<<b1, 0>>], BinRangeSum(h, b1 + 1, b2))

\* the bin of a 1-D histogram that contains the whole number x
BinContaining(h, x) ==
    IF x < h.xlow THEN 0
    ELSE IF x >= h.xlow + h.nx THEN h.nx + 1
    ELSE x - h.xlow + 1

\* C8: whenever both xmin and xmax are given to normalizeTo, also when one
\* of them is 0, the integrals of h and other run over the bins from the
\* one containing xmin to the one containing xmax (seen in the factor
\* returned), not over the full range.
C8_RangeWheneverGiven ==
    (call.name = "normalize_to" /\ ~IsNone(call.xmin) /\ ~IsNone(call.xmax)) =>
        LET lo == call.xmin.val.n
            hi == call.xmax.val.n
            n1 == BinRangeSum(pre, BinContaining(pre, lo), BinContaining(pre, hi))
            n2 == BinRangeSum(call.other, BinContaining(call.other, lo),
                              BinContaining(call.other, hi))
        IN  ret = Number(IF n1.n > 0 THEN Rat(n2.n * n1.d, n2.d * n1.n) ELSE RInt(1))

\* the factor and its error a scale call uses
UsedFactor == IF HasMean(call.c) THEN call.c.mean ELSE call.c.val

UsedErrorSq ==
    IF HasMean(call.c) THEN call.c.error.sq ELSE RMul(call.e_c.val, call.e_c.val)

\* C9: scale(h, c, errC) with c a Measurement or with errC given sets, for
\* every bin 1..N of a 1-D histogram, the content to oldContent*c and the
\* error to newContent*sqrt((oldError/oldContent)^2 + (errC/c)^2), from the
\* values before the call, and the error to 0 when oldContent or c is 0;
\* a bin 10+-1 scaled by Measurement(2.0, 0.0) becomes 20+-2.0.
C9_ScaleWithError ==
    (call.name = "scale" /\ (HasMean(call.c) \/ ~IsNone(call.e_c))) =>
        \A b \in 1..pre.nx :
            LET n0 == pre.content[<<b, 0>>]
                e0 == pre.error[<<b, 0>>]
                n  == hist.content[<<b, 0>>]
                e  == hist.error[<<b, 0>>]
                rel2 == RAdd(RDiv(e0.sq, RMul(n0, n0)),
                             RDiv(UsedErrorSq, RMul(UsedFactor, UsedFactor)))
            IN  /\ n = RMul(n0, UsedFactor)
                /\ IF n0 = RZero \/ UsedFactor = RZero
                   THEN e = SZero
                   ELSE /\ e.sq = RMul(RMul(n, n), rel2)
                        /\ e.sg = RSign(n) * RSign(rel2)
                /\ (call.c = Value(RInt(2), SZero) /\ n0 = RInt(10) /\ e0 = SOfR(RInt(1))) =>
                       (n = RInt(20) /\ e = SOfR(RInt(2)))

C9_Witness ==
    /\ call.name = "scale"
    /\ call.c = Value(RInt(2), SOfR(RInt(1)))
    /\ pre.content[<<1, 0>>] = RInt(10)
    /\ pre.error[<<1, 0>>] = SOfR(RInt(1))
    /\ pre.content[<<2, 0>>] = RZero
    /\ pre.error[<<2, 0>>] = SOfR(RInt(1))
    /\ hist.content[<<1, 0>>] = RInt(20)
    /\ hist.error[<<1, 0>>] = Sqrt(RInt(104))
    /\ hist.error[<<2, 0>>] = SZero

\* C10: addOverflowBin on a 1-D histogram with N bins sets content[N] to
\* the old content[N]+content[N+1] and error[N] to
\* sqrt(old error[N]^2 + old error[N+1]^2), sets the overflow's content and
\* error to 0 and leaves bins 0..N-1 unchanged.
C10_AddOverflowBin1D ==
    (call.name = "add_overflow_bin" /\ pre.dim = 1) =>
        LET N == pre.nx
        IN  /\ hist.content[<<N, 0>>] = RAdd(pre.content[<<N, 0>>], pre.content[<<N + 1, 0>>])
            /\ hist.error[<<N, 0>>].sg >= 0
            /\ hist.error[<<N, 0>>].sq = RAdd(pre.error[<<N, 0>>].sq, pre.error[<<N + 1, 0>>].sq)
            /\ hist.content[<<N + 1, 0>>] = RZero
            /\ hist.error[<<N + 1, 0>>] = SZero
            /\ \A b \in 0..(N - 1) :
                  /\ hist.content[<<b, 0>>] = pre.content[<<b, 0>>]
                  /\ hist.error[<<b, 0>>] = pre.error[<<b, 0>>]

\* bin N = 10+-2 with overflow 5+-1 becomes 15+-sqrt(5)
C10_Witness ==
    /\ call.name = "add_overflow_bin"
    /\ pre.dim = 1
    /\ pre.content[<<pre.nx, 0>>] = RInt(10)
    /\ pre.error[<<pre.nx, 0>>] = SOfR(RInt(2))
    /\ pre.content[<<pre.nx + 1, 0>>] = RInt(5)
    /\ pre.error[<<pre.nx + 1, 0>>] = SOfR(RInt(1))
    /\ hist.content[<<pre.nx, 0>>] = RInt(15)
    /\ hist.error[<<pre.nx, 0>>] = Sqrt(RInt(5))
    /\ hist.content[<<pre.nx + 1, 0>>] = RZero
    /\ hist.error[<<pre.nx + 1, 0>>] = SZero

\* C11: addOverflowBin on a 2-D histogram with N x M bins adds cell
\* (bx, M+1) to (bx, M) for bx in 1..N-1, cell (N+1, by) to (N, by) for by
\* in 1..M-1 and the three cells (N+1, M), (N, M+1), (N+1, M+1) to (N, M):
\* contents are summed and errors combined in quadrature.  Afterwards every
\* cell (bx, M+1) with bx in 1..N+1 and every cell (N+1, by) with by in
\* 1..M+1 holds content 0 and error 0.
C11_AddOverflowBin2D ==
    (call.name = "add_overflow_bin" /\ pre.dim = 2) =>
        LET N == pre.nx
            M == pre.ny
        IN  /\ \A bx \in 1..(N - 1) :
                  /\ hist.content[<<bx, M>>] =
                         RAdd(pre.content[<<bx, M>>], pre.content[<<bx, M + 1>>])
                  /\ hist.error[<<bx, M>>].sg >= 0
                  /\ hist.error[<<bx, M>>].sq =
                         RAdd(pre.error[<<bx, M>>].sq, pre.error[<<bx, M + 1>>].sq)
            /\ \A by \in 1..(M - 1) :
                  /\ hist.content[<<N, by>>] =
                         RAdd(pre.content[<<N, by>>], pre.content[<<N + 1, by>>])
                  /\ hist.error[<<N, by>>].sg >= 0
                  /\ hist.error[<<N, by>>].sq =
                         RAdd(pre.error[<<N, by>>].sq, pre.error[<<N + 1, by>>].sq)
            /\ hist.content[<<N, M>>] =
                   RAdd(RAdd(pre.content[<<N, M>>], pre.content[<<N + 1, M>>]),
                        RAdd(pre.content[<<N, M + 1>>], pre.content[<<N + 1, M + 1>>]))
            /\ hist.error[<<N, M>>].sg >= 0
            /\ hist.error[<<N, M>>].sq =
                   RAdd(RAdd(pre.error[<<N, M>>].sq, pre.error[<<N + 1, M>>].sq),
                        RAdd(pre.error[<<N, M + 1>>].sq, pre.error[<<N + 1, M + 1>>].sq))
            /\ \A bx \in 1..(N + 1) :
                  /\ hist.content[<<bx, M + 1>>] = RZero
                  /\ hist.error[<<bx, M + 1>>] = SZero
            /\ \A by \in 1..(M + 1) :
                  /\ hist.content[<<N + 1, by>>] = RZero
                  /\ hist.error[<<N + 1, by>>] = SZero

\* the histogram of weight 1: all four cells of the corner and the overflow
\* row are filled before the call, and folded after it
C11_Witness ==
    /\ call.name = "add_overflow_bin"
    /\ pre = Hist2D(NBins, NBinsY, 1)
    /\ pre.content[<<NBins + 1, NBinsY + 1>>] # RZero
    /\ pre.content[<<1, NBinsY + 1>>] # RZero
    /\ pre.content[<<NBins + 1, 1>>] # RZero
    /\ hist.content[<<1, NBinsY>>] = RAdd(pre.content[<<1, NBinsY>>], pre.content[<<1, NBinsY + 1>>])
    /\ hist.content[<<NBins, NBinsY>>] # pre.content[<<NBins, NBinsY>>]
    /\ hist.content[<<NBins + 1, NBinsY + 1>>] = RZero
    /\ hist.error[<<NBins + 1, NBinsY + 1>>] = SZero

(***************************************************************************)
(* Properties of the helpers that return a new histogram                   *)
(***************************************************************************)
\* the sum of the contents of the cells (bx, by1..by2)
RECURSIVE ColumnSum(_, _, _, _)
ColumnSum(h, bx, by1, by2) ==
    IF by1 > by2 THEN RZero
    ELSE RAdd(h.content[<<bx, by1>>], ColumnSum(h, bx, by1 + 1, by2))

\* the sum of the contents of the cells [bx1..bx2] x [by1..by2]
RECURSIVE BlockSum(_, _, _, _, _)
BlockSum(h, bx1, bx2, by1, by2) ==
    IF bx1 > bx2 THEN RZero
    ELSE RAdd(ColumnSum(h, bx1, by1, by2), BlockSum(h, bx1 + 1, bx2, by1, by2))

\* the histogram a call was made on, as it was, and the one it returned
Source == objs0[call.hist]

Returned == objs[ret.ref]

\* C12 as stated: with inverseX and inverseY both false, bin (bx, by) of
\* cumulative(h) holds the sum of the contents of h over [1..bx] x [1..by].
C12_FromFirstBin ==
    (call.name = "cumulative" /\ ~call.inverse_x /\ ~call.inverse_y) =>
        \A bx \in 1..Source.nx, by \in 1..Source.ny :
            Returned.content[<<bx, by>>] = BlockSum(Source, 1, bx, 1, by)

\* C12 amended: with inverseX and inverseY both false, bin (bx, by) of
\* cumulative(h) holds the sum of the contents of h over [bx..N] x [by..M],
\* from the bin to the last bin of each axis.
C12_ToLastBin ==
    (call.name = "cumulative" /\ ~call.inverse_x /\ ~call.inverse_y) =>
        \A bx \in 1..Source.nx, by \in 1..Source.ny :
            Returned.content[<<bx, by>>] = BlockSum(Source, bx, Source.nx, by, Source.ny)

\* both flags false on the histogram of weight 1: bin (1, 1) holds the
\* whole integral, the last bin its own content
C12_Witness ==
    /\ call.name = "cumulative"
    /\ ~call.inverse_x
    /\ ~call.inverse_y
    /\ Source = Hist2D(NBins, NBinsY, 1)
    /\ Returned.content[<<1, 1>>] = FullIntegral(Source)
    /\ Returned.content[<<1, 1>>] # Source.content[<<1, 1>>]
    /\ Returned.content[<<NBins, NBinsY>>] = Source.content[<<NBins, NBinsY>>]

\* C13: the bins accumulated on x depend on inverseX alone and those on y
\* on inverseY alone: with the flag of an axis false, bin b accumulates
\* from b to the last bin of that axis, with the flag true from bin 1 to b,
\* in each of the four combinations of the flags.
C13_FlagsPerAxis ==
    call.name = "cumulative" =>
        \A bx \in 1..Source.nx, by \in 1..Source.ny :
            Returned.content[<<bx, by>>] =
                BlockSum(Source,
                         IF call.inverse_x THEN 1 ELSE bx,
                         IF call.inverse_x THEN bx ELSE Source.nx,
                         IF call.inverse_y THEN 1 ELSE by,
                         IF call.inverse_y THEN by ELSE Source.ny)

\* contents [1, 2, 3] with the flag of x false give [6, 5, 3]
C13_Witness ==
    /\ call.name = "cumulative"
    /\ ~call.inverse_x
    /\ call.inverse_y
    /\ Source = ExampleRow
    /\ Returned.content[<<1, 1>>] = RInt(6)
    /\ Returned.content[<<2, 1>>] = RInt(5)
    /\ Returned.content[<<3, 1>>] = RInt(3)

\* C14: cumulative returns a histogram that did not exist before, with
\* the binning of the source, and every histogram that existed, the source
\* included, holds afterwards what it held before, whatever the flags.
C14_CumulativeKeepsSource ==
    call.name = "cumulative" =>
        /\ ret.ref \notin DOMAIN objs0
        /\ ret.ref \in DOMAIN objs
        /\ Returned.dim = Source.dim
        /\ Returned.nx = Source.nx
        /\ Returned.ny = Source.ny
        /\ Returned.xlow = Source.xlow
        /\ DOMAIN Returned.content = DOMAIN Source.content
        /\ \A r \in DOMAIN objs0 : objs[r] = objs0[r]

\* the returned histogram differs from its source, which is as it was
C14_Witness ==
    /\ call.name = "cumulative"
    /\ call.inverse_x
    /\ ~call.inverse_y
    /\ Source = Hist2D(NBins, NBinsY, 2)
    /\ Returned # Source
    /\ objs[call.hist] = Source

\* the sum of cell of the histograms merge_list[i..]
RECURSIVE ListSum(_, _, _)
ListSum(merge_list, i, cell) ==
    IF i > Len(merge_list) THEN RZero
    ELSE RAdd(objs0[merge_list[i]].content[cell], ListSum(merge_list, i + 1, cell))

\* C15: mergeHistograms on a non-empty list of histograms of the same
\* binning returns a histogram that did not exist before, each cell of
\* which holds the sum of that cell over the list, every entry counted
\* with weight 1, and every histogram of the list, the first included,
\* holds afterwards what it held before.
C15_MergeSumsBins ==
    call.name = "merge" =>
        /\ ret.ref \notin DOMAIN objs0
        /\ ret.ref \in DOMAIN objs
        /\ DOMAIN Returned.content = DOMAIN objs0[call.merge_list[1]].content
        /\ \A cell \in DOMAIN Returned.content :
              Returned.content[cell] = ListSum(call.merge_list, 1, cell)
        /\ \A i \in DOMAIN call.merge_list :
              objs[call.merge_list[i]] = objs0[call.merge_list[i]]

\* two different histograms merged: weights 1 and 2 give weight 3
C15_Witness ==
    /\ call.name = "merge"
    /\ Len(call.merge_list) = 2
    /\ objs0[call.merge_list[1]] = Hist2D(NBins, NBinsY, 1)
    /\ objs0[call.merge_list[2]] = Hist2D(NBins, NBinsY, 2)
    /\ Returned.content = Hist2D(NBins, NBinsY, 3).content
    /\ objs[call.merge_list[1]] = Hist2D(NBins, NBinsY, 1)

(***************************************************************************)
(* Properties of the statistical functions                                 *)
(***************************************************************************)
\* C16: poissonSignificance(observed, expected) returns exactly 0.0
\* whenever the p-value p is at least 0.5; with p < 0.5 it returns +z when
\* observed > expected and -z when observed <= expected, z being the
\* z-score of p; so the result is never positive when observed <= expected
\* and never negative when observed > expected.
C16_PoissonSign ==
    call.name = "poisson_significance" =>
        LET above == RLt(call.exp, call.obs)
            p == IF above THEN RSub(RInt(1), call.gamma) ELSE call.gamma
            z == zvalue(p)
        IN  /\ ret.kind = "return"
            /\ RLe(Rat(1, 2), p) => ret.val = ZeroSignificance
            /\ (RLt(p, Rat(1, 2)) /\ above) => (ret.val = z /\ ret.val.sg = 1)
            /\ (RLt(p, Rat(1, 2)) /\ ~above) =>
                   (ret.val.arg = z.arg /\ ret.val.fn = z.fn /\ ret.val.sg = 0 - 1)
            /\ ~above => ret.val.sg <= 0
            /\ above => ret.val.sg >= 0

\* a deficit with p < 0.5: the negative z-score
C16_Witness ==
    /\ call.name = "poisson_significance"
    /\ RLt(call.obs, call.exp)
    /\ call.gamma = Rat(1, 4)
    /\ ret.kind = "return"
    /\ ret.val.sg = 0 - 1
    /\ ret.val.arg = Rat(19, 20)

\* C17: binomialExpZ returns 0 when minB is given and b < minB, when minS
\* is given and s < minS, when the host's result is negative and when it is
\* +Infinity, and the host's result unchanged otherwise; the returned value
\* is never negative and never +Infinity.
C17_SignificanceClamped ==
    call.name = "get_significance" =>
        LET clamped == \/ (~IsNone(call.minb) /\ RLt(call.b, call.minb.val))
                       \/ (~IsNone(call.mins) /\ RLt(call.s, call.mins.val))
                       \/ call.host_z = FNegInf
                       \/ (call.host_z.kind = "num" /\ call.host_z.val.n < 0)
                       \/ call.host_z = FPosInf
        IN  /\ ret.kind = "return"
            /\ clamped => ret.val = FNum(RZero)
            /\ ~clamped => ret.val = call.host_z
            /\ ret.val # FPosInf
            /\ ret.val # FNegInf
            /\ ret.val.kind = "num" => ret.val.val.n >= 0

\* the host answers +Infinity, no minimum is given: 0 is returned
C17_Witness ==
    /\ call.name = "get_significance"
    /\ IsNone(call.minb)
    /\ IsNone(call.mins)
    /\ call.host_z = FPosInf
    /\ ret = Return(FNum(RZero))

\* a yield that is a plain number
IsNumber(x) == x.tag = "number"

\* C18 as stated: cowanSignificance(s, b, sigmaBFrac, minB, minS) returns 0
\* whenever s < 1e-5, b < 1e-5, minS is given and s < minS, minB is given
\* and b < minB, or za2 <= 0, and otherwise returns sqrt(za2) rounded to 2
\* decimals; the returned value is never negative.  (Stated for plain
\* numbers s and b; the returned value r is the rational with 100 * r the
\* integer nearest to 100 * sqrt(za2).)
C18_CowanReturns ==
    (call.name = "get_significance_unc" /\ IsNumber(call.s) /\ IsNumber(call.b)) =>
        LET sv == call.s.val
            bv == call.b.val
            early == \/ RLt(sv, Rat(1, 100000))
                     \/ RLt(bv, Rat(1, 100000))
                     \/ (~IsNone(call.mins) /\ RLt(sv, call.mins.val))
                     \/ (~IsNone(call.minb) /\ RLt(bv, call.minb.val))
            sigma == RMul(call.sb, bv)
            za2 == RMul(RInt(2),
                        RSub(RMul(RAdd(sv, bv), call.log_p),
                             RMul(RDiv(RMul(bv, bv), RMul(sigma, sigma)), call.log_m)))
            r100 == RMul(ret.val, RInt(100))
        IN  /\ ret.kind = "return"
            /\ ret.val.n >= 0
            /\ early => ret.val = RZero
            /\ ~early =>
                  IF RLe(za2, RZero) THEN ret.val = RZero
                  ELSE /\ r100.d = 1
                       /\ RLe(RMul(RInt((2 * r100.n - 1) * (2 * r100.n - 1)), Rat(1, 40000)), za2)
                       /\ RLe(za2, RMul(RInt((2 * r100.n + 1) * (2 * r100.n + 1)), Rat(1, 40000)))

\* C19 as stated: for all numbers s and b and every background-uncertainty
\* fraction sigmaBFrac >= 0, sigmaBFrac = 0 and b = 0 included,
\* signalOverSqrtB(s, b) and cowanSignificance(s, b, sigmaBFrac) return a
\* number instead of raising.
C19_NoDivisionByZero ==
    /\ call.name = "get_sb" => ret.kind = "return"
    /\ (call.name = "get_significance_unc" /\ IsNumber(call.s) /\ IsNumber(call.b)
            /\ RLe(RZero, call.sb)) =>
           ret.kind = "return"

\* the bins 1..N of a 1-D histogram whose content is greater than 0
FilledBins(h) == {b \in 1..h.nx : h.content[<<b, 0>>].n > 0}

\* C20: poissonErrorBars(h) emits exactly one point for each bin b in 1..N
\* whose content is > 0, in increasing bin order, with y the content of the
\* bin and both x errors half the width of the bin; bins whose content is
\* <= 0, the underflow and the overflow emit no point, and when no bin
\* qualifies the result is an empty point set.
C20_PoissonPoints ==
    call.name = "make_poisson_cl_errors" =>
        /\ Len(ret.points) = Cardinality(FilledBins(pre))
        /\ \A b \in FilledBins(pre) :
              LET i == Cardinality({c \in FilledBins(pre) : c <= b})
              IN  /\ ret.points[i].x = RSub(RInt(pre.xlow + b), Rat(1, 2))
                  /\ ret.points[i].y = pre.content[<<b, 0>>]
                  /\ ret.points[i].x_errL = Rat(1, 2)
                  /\ ret.points[i].x_errU = Rat(1, 2)
        /\ FilledBins(pre) = {} => ret.points = <<>>

\* bin 1 holds 10, the last bin -5 and the overflow 5: the one point is the
\* one of bin 1
C20_Witness ==
    /\ call.name = "make_poisson_cl_errors"
    /\ pre.content[<<1, 0>>] = RInt(10)
    /\ pre.content[<<pre.nx, 0>>] = RInt(0 - 5)
    /\ pre.content[<<pre.nx + 1, 0>>] = RInt(5)
    /\ Len(ret.points) >= 1
    /\ Len(ret.points) < pre.nx
    /\ ret.points[1].y = RInt(10)
    /\ ret.points[1].x = Rat(0 - 1, 2)

(***************************************************************************)
(* Properties of the core as a whole                                       *)
(***************************************************************************)
\* the histograms that existed before a step hold after it what they held
ObjectsKept == \A r \in DOMAIN objs : r \in DOMAIN objs' /\ objs'[r] = objs[r]

\* C21 as stated: only normalizeTo, scale and addOverflowBin change an
\* argument: normalize, cumulative, mergeHistograms, poissonErrorBars and
\* the operators of a Measurement leave every histogram argument and both
\* operands as they were.
C21_OnlyThreeMutators ==
    [][/\ call'.name \in {"normalize", "make_poisson_cl_errors"} => hist' = hist
       /\ call'.name \in {"cumulative", "merge"} => ObjectsKept
       /\ op' # op => (self' = self /\ other' = other)]_vars

\* C21 amended: normalize, normalizeTo, scale and addOverflowBin change the
\* histogram they are called on; cumulative, mergeHistograms,
\* poissonErrorBars and the operators of a Measurement leave every
\* histogram argument and both operands as they were.
C21_FrameOfTheOthers ==
    [][/\ call'.name = "make_poisson_cl_errors" => hist' = hist
       /\ call'.name \in {"cumulative", "merge"} => ObjectsKept
       /\ op' # op => (self' = self /\ other' = other)]_vars

\* a merge of two histograms returned a third one that differs from both,
\* and the two hold what they held
C21_Witness ==
    /\ call.name = "merge"
    /\ Len(call.merge_list) = 2
    /\ Len(objs0) = 2
    /\ Len(objs) = 3
    /\ objs[3] # objs[1]
    /\ objs[3] # objs[2]
    /\ objs[1] = objs0[1]
    /\ objs[2] = objs0[2]

\* C22 as stated: Measurement arithmetic preserves error >= 0: for
\* Measurements a, b with a.error >= 0 and b.error >= 0 and every plain
\* number k, negative k and negative means included, the results of
\* add(a,b), sub(a,b), mul(a,b), mul(a,k) and div(a,b) have error >= 0.
C22_ErrorStaysNonNegative ==
    (/\ op \in {"add", "sub", "mul", "div"}
     /\ self.error.sg >= 0
     /\ HasMean(other) => other.error.sg >= 0
     /\ HasMean(other) \/ op = "mul") =>
        /\ res.kind = "return"
        /\ res.val.error.sg >= 0

(***************************************************************************)
(* Properties of MultiDraw                                                 *)
(***************************************************************************)
\* the fills recorded for entry i and tuple j
FillsFor(i, j) == {k \in DOMAIN md.fills : md.fills[k].entry = i /\ md.fills[k].tuple = j}

\* C23: a MultiDraw that returns has made, for every entry of the tree and
\* every draw tuple j, exactly one fill of the histogram of tuple j with
\* the value of its variable and the weight of its selection in that entry
\* when the weight is not 0, and no fill when it is 0: the fills of
\* projecting each tuple by itself, also where an expression equal to the
\* one of the preceding tuple was not evaluated again.
C23_MultiDrawFills ==
    (call.name = "MultiDraw" /\ md.outcome.kind = "return") =>
        /\ \A i \in DOMAIN md.tree, j \in DOMAIN call.draw_list :
              LET w == md.tree[i][call.draw_list[j][3]]
              IN  IF w = 0 THEN FillsFor(i, j) = {}
                  ELSE /\ Cardinality(FillsFor(i, j)) = 1
                       /\ \A k \in FillsFor(i, j) :
                             /\ md.fills[k].hist = call.draw_list[j][1]
                             /\ md.fills[k].value = md.tree[i][call.draw_list[j][2]]
                             /\ md.fills[k].weight = w
        /\ \A k \in DOMAIN md.fills :
              /\ md.fills[k].entry \in DOMAIN md.tree
              /\ md.fills[k].tuple \in DOMAIN call.draw_list

\* two tuples with the same variable and selection on a tree of two
\* different entries: the second tuple evaluates nothing, and both
\* histograms are filled for both entries
C23_Witness ==
    /\ call.name = "MultiDraw"
    /\ md.outcome.kind = "return"
    /\ call.draw_list = <<(<<"h1", "x", "y">>), (<<"h2", "x", "y">>)>>
    /\ Len(md.tree) = 2
    /\ md.tree[1] = [x |-> 0, y |-> 2]
    /\ md.tree[2] = [x |-> 1, y |-> 2]
    /\ Len(md.fills) = 4
    /\ md.fills[4] = [hist |-> "h2", value |-> 1, weight |-> 2, entry |-> 2, tuple |-> 2]

\* C24 as stated: when a draw tuple names a histogram that is not in the
\* current directory or an expression that does not compile, MultiDraw
\* raises RuntimeError and no histogram of the call has been filled.
C24_RuntimeErrorBeforeFills ==
    (/\ call.name = "MultiDraw"
     /\ \E j \in DOMAIN call.draw_list :
           \/ call.draw_list[j][1] \notin md.directory
           \/ call.draw_list[j][2] \notin Branches
           \/ call.draw_list[j][3] \notin Branches) =>
        /\ md.outcome = Raise("RuntimeError")
        /\ md.fills = <<>>

(***************************************************************************)
(* Properties of class HistManager                                         *)
(***************************************************************************)
\* C25: the default weight is 1.0 until set_weight is called, set_weight
\* makes its argument the default weight, and add and fill leave it as it
\* is, so that the default weight is the one of the most recent set_weight
\* call; a fill without a weight uses the default weight, a fill with a
\* weight (0 included) uses that weight; and a fill adds one entry to the
\* histogram registered under the given name and changes no other one.
C25_FillWeight ==
    /\ call.name = "idle" => hm.weight = RInt(1)
    /\ [][/\ call'.name = "set_weight" => (hm'.weight = call'.w /\ hm'.data = hm.data)
          /\ call'.name = "add" => hm'.weight = hm.weight
          /\ (call'.name = "fill" /\ call'.hname \in DOMAIN hm.data) =>
                /\ ret' = Return(None)
                /\ hm'.weight = hm.weight
                /\ DOMAIN hm'.data = DOMAIN hm.data
                /\ \A n \in DOMAIN hm.data \ {call'.hname} : hm'.data[n] = hm.data[n]
                /\ hm'.data[call'.hname] =
                       Append(hm.data[call'.hname],
                              [value |-> call'.value,
                               weight |-> IF IsNone(call'.weight) THEN hm.weight
                                          ELSE call'.weight.val])]_vars

\* the default weight is 3 and a is filled with the weight 0 after a fill
\* without a weight: the entries carry 3 and 0, and b is empty
C25_Witness ==
    /\ call.name = "fill"
    /\ call.hname = "a"
    /\ call.weight = Number(RZero)
    /\ hm.weight = RInt(3)
    /\ DOMAIN hm.data = {"a", "b"}
    /\ Len(hm.data["a"]) = 2
    /\ hm.data["a"][1].weight = RInt(3)
    /\ hm.data["a"][2].weight = RZero
    /\ hm.data["b"] = <<>>

(***************************************************************************)
(* Properties of class LatexTable                                          *)
(***************************************************************************)
\* C26: a rejected insertion changes nothing.  add_row with a number of
\* values that differs from the number of field names, when the table has
\* field names, raises and leaves the rows as they were; add_column with a
\* column whose length differs from the number of rows, when the table has
\* rows, raises and leaves the field names, the alignments and every row as
\* they were.
C26_RejectedInsertion ==
    [][/\ (/\ call'.name = "add_row"
           /\ table._field_names # <<>>
           /\ Len(call'.row) # Len(table._field_names)) =>
              /\ ret' = Raise("Exception")
              /\ table'._rows = table._rows
       /\ (/\ call'.name = "add_column"
           /\ table._rows # <<>>
           /\ Len(call'.column) # Len(table._rows)) =>
              /\ ret' = Raise("Exception")
              /\ table'._field_names = table._field_names
              /\ table'._align = table._align
              /\ table'._rows = table._rows]_vars

\* a column of one cell was refused by a table of two rows, which still has
\* its one field name, its one alignment and its two rows of one cell
C26_Witness ==
    /\ call.name = "add_column"
    /\ Len(call.column) = 1
    /\ ret = Raise("Exception")
    /\ table._field_names = <<"x">>
    /\ DOMAIN table._align = {"x"}
    /\ Len(table._rows) = 2
    /\ \A i \in 1..2 : Len(table._rows[i]) = 1

\* C27: every row that is not a rule row holds as many cells as the table
\* has field names, and every rule row holds the single cell \hline.
C27_RowsMatchFieldNames ==
    \A i \in 1..Len(table._rows) :
        LET row == table._rows[i]
        IN  IF row # <<>> /\ row[1] = Hline
            THEN row = <<Hline>>
            ELSE Len(row) = Len(table._field_names)

\* C28: get_string (and str()) does not raise for a table built with the
\* constructor and add_row, add_column, add_line and clear: it returns the
\* empty string when the table has no rows and lines otherwise.
C28_GetStringNeverRaises ==
    call.name = "get_string" =>
        /\ ret.kind = "return"
        /\ (ret.val = "") = (table._rows = <<>>)

(***************************************************************************)
(* Totals of histogram_add_overflow_bin and scaling by a Value without     *)
(* error                                                                   *)
(***************************************************************************)
\* the sum of the squared errors of the cells (bx, by1..by2)
RECURSIVE ColumnErr2Sum(_, _, _, _)
ColumnErr2Sum(h, bx, by1, by2) ==
    IF by1 > by2 THEN RZero
    ELSE RAdd(SSq(h.error[<<bx, by1>>]), ColumnErr2Sum(h, bx, by1 + 1, by2))

\* the sum of the squared errors of the cells [bx1..bx2] x [by1..by2]
RECURSIVE BlockErr2Sum(_, _, _, _, _)
BlockErr2Sum(h, bx1, bx2, by1, by2) ==
    IF bx1 > bx2 THEN RZero
    ELSE RAdd(ColumnErr2Sum(h, bx1, by1, by2), BlockErr2Sum(h, bx1 + 1, bx2, by1, by2))

\* C29: addOverflowBin conserves the totals.  The sum of the contents and
\* the sum of the squared errors over the bins 1..N+1 of a 1-D histogram,
\* and over the cells [1..N+1] x [1..M+1] of a 2-D histogram, are the same
\* before and after the call.
C29_TotalsConserved ==
    call.name = "add_overflow_bin" =>
        LET by1 == IF pre.dim = 2 THEN 1 ELSE 0
            by2 == IF pre.dim = 2 THEN pre.ny + 1 ELSE 0
        IN  /\ BlockSum(hist, 1, pre.nx + 1, by1, by2) =
                   BlockSum(pre, 1, pre.nx + 1, by1, by2)
            /\ BlockErr2Sum(hist, 1, pre.nx + 1, by1, by2) =
                   BlockErr2Sum(pre, 1, pre.nx + 1, by1, by2)

\* the 2-D histogram of weight 2, whose overflow row, overflow column and
\* corner are filled: the call moved content, and the totals are the ones
\* before the call and are not zero
C29_Witness ==
    /\ call.name = "add_overflow_bin"
    /\ pre = Hist2D(NBins, NBinsY, 2)
    /\ hist # pre
    /\ hist.content[<<NBins, NBinsY>>] # pre.content[<<NBins, NBinsY>>]
    /\ BlockSum(hist, 1, NBins + 1, 1, NBinsY + 1) = BlockSum(pre, 1, NBins + 1, 1, NBinsY + 1)
    /\ BlockSum(pre, 1, NBins + 1, 1, NBinsY + 1) # RZero
    /\ BlockErr2Sum(hist, 1, NBins + 1, 1, NBinsY + 1) # RZero

\* C30: scaling by a Measurement with zero error is the same as scaling by
\* the plain number.  After scale(h, Measurement(c, 0)) on a 1-D histogram
\* every bin, the underflow and the overflow included, holds what
\* scale(h, c) without errC gives: the content times c and the error times c.
C30_ZeroErrorScaleIsPlainScale ==
    (call.name = "scale" /\ HasMean(call.c) /\ call.c.error = SZero) =>
        /\ hist = histogram_scale(pre, Number(call.c.mean), None)
        /\ \A b \in 0..(pre.nx + 1) :
              /\ hist.content[<<b, 0>>] = RMul(pre.content[<<b, 0>>], call.c.mean)
              /\ hist.error[<<b, 0>>] = RMulS(call.c.mean, pre.error[<<b, 0>>])

====
